---- MODULE Spec2Model ----
(***************************************************************************)
(* Coordination core of the chat-bot backend: the notification fan-out of  *)
(* src/src/bot/notifier.py (AggregationNotifier), its reminder sweep and   *)
(* background cycle (ReminderNotifier), the provider router of             *)
(* src/src/ai/router.py (AIRouter) and the context trimmer of              *)
(* src/src/ai/token_counter.py (trim_context).                             *)
(*                                                                         *)
(* Every coroutine is cut at its suspension points (the awaits that really *)
(* yield): a step of the model is the code that runs between two of them.  *)
(* The for-loop of notify_new_message is cut at its head as well, which    *)
(* only adds interleavings.                                                *)
(*                                                                         *)
(* Time: the code reads time.monotonic() and stores absolute instants in   *)
(* _channel_last_sent.  The model stores, for each key of that dict, the   *)
(* time elapsed since the stored instant (now - last_sent), in ticks, and  *)
(* Tick advances every such age together.  An age is capped at the         *)
(* cooldown: the code only compares it with the cooldown.                  *)
(***************************************************************************)
EXTENDS Integers, Sequences, FiniteSets, TLC

\* ------------------------------------------------------------------ bounds

\* number of concurrently running notify_new_message invocations
NumTasks == 3
\* number of rows of the reminders table
NumReminders == 2
\* number of successive check_and_notify calls
MaxSweeps == 2
\* clock ticks per second
TicksPerSecond == 2
\* the admission gate's size.  notifier.py:48 sets it to 5; the gate is
\* parametric in it and it is explored here at sizes below NumTasks, so that
\* invocations do compete for slots.
MAX_CONCURRENT_REQUESTS == 2
\* number of background tasks ReminderNotifier.start can create
NumBgTasks == 3
\* number of coroutines that call ReminderNotifier.stop
NumCallers == 2
\* longest list of the ai_fallback table
MaxFallbacks == 2
\* longest conversation history given to trim_context
MaxLen == 4
\* largest token budget given to trim_context
MaxBudget == 12
\* number of successive trims of one history
MaxTrims == 2
\* the cap on the messages of one summary.  summarizer.py:47 sets it to 100;
\* the cap is parametric in it and it is explored here below MaxMessages, so
\* that lists longer than the cap occur.
MAX_MESSAGES == 2
\* longest list of messages given to summarize
MaxMessages == 4
\* the day a summary is asked for; the messages are of the days before it
MaxDay == 4
\* number of guilds the recorder is used in
NumGuilds == 2
\* number of command handlers that call the recorder
NumRecCallers == 2
\* number of rows the voice_sessions table can take
MaxSessions == 2

\* --------------------------------------------------------- program constants

CHANNEL_COOLDOWN_SECONDS == 1

DEFAULT_CHARS_PER_TOKEN == 4

Cooldown == CHANNEL_COOLDOWN_SECONDS * TicksPerSecond

\* ---------------------------------------------- persistence (read-only views)

Tasks == 1..NumTasks

Rooms == 1..6

Workspaces == 1..2

Reminders == 1..NumReminders

BgTasks == 1..NumBgTasks

Callers == 1..NumCallers

\* Room.room_type
room_type(r) ==
    CASE r = 1 -> "topic"
      [] r = 2 -> "member"
      [] r = 3 -> "topic"
      [] r = 4 -> "aggregation"
      [] r = 5 -> "aggregation"
      [] r = 6 -> "aggregation"

\* Database.get_target_rooms: the rooms linked from a source room, in the
\* order of the link lookup
get_target_rooms(r) ==
    CASE r = 1 -> <<4, 2, 5>>
      [] r = 2 -> <<3>>
      [] r = 3 -> <<>>
      [] OTHER -> <<>>

IsAggregation(r) == room_type(r) = "aggregation"

\* the mutant of AggregationRooms: the kind filter is lost
AggregationRoomsNoFilter(r) == get_target_rooms(r)

\* notifier.py:92-93
AggregationRooms(r) == SelectSeq(get_target_rooms(r), IsAggregation)

SourceRooms == {1, 2, 3}

\* ------------------------------------------------------------------- state

VARIABLES
    router,            \* AggregationNotifier.router is set (not None)
    semaphore_value,   \* _semaphore._value
    waiters,           \* _semaphore._waiters, FIFO, of the suspended acquirers
    granted,           \* waiters whose future is done but who did not resume yet
    channel_last_sent, \* _channel_last_sent: key -> ticks since the stored instant
    pc,                \* position of each notify_new_message invocation
    room,              \* its source room
    idx,               \* index in aggregation_rooms of the loop at line 109
    notified_rooms,    \* its result list
    sleep_left,        \* remaining ticks of its asyncio.sleep
    \* history variables (written, never read by the steps)
    called,            \* the invocation issued a search, an acquire, a channel lookup or a send
    sent_ok,           \* rooms whose send returned normally, in order
    failed,            \* rooms whose delivery raised, in order
    stale,             \* a send to its destination completed after its cooldown check
    past_hang,         \* it took its slot while another delivery was hanging
    true_last_ok,      \* channel -> ticks since the last send that returned normally
    \* ReminderNotifier and the reminders table
    reminder_ws,       \* Reminder.workspace_id
    room_added,        \* the rooms table holds room 6
    reminder_status,   \* Reminder.status
    reminder_due,      \* due_date <= now + hours_ahead
    reminder_notified, \* Reminder.notified
    sweep_pc,          \* position of check_and_notify
    pending_reminders, \* the list fetched at line 369
    ri,                \* index of the reminder loop (line 375)
    rj,                \* index of the room loop (line 385)
    notified_count,    \* the count being built
    sweeps,            \* calls of check_and_notify that have ended
    \* history variables of the sweep
    sweep_log,         \* one record for each call that has ended
    cur_failed,        \* reminders one of whose deliveries raised in this call
    cur_counted,       \* reminders counted by this call
    cur_skipped,       \* reminders this call skipped for lack of an aggregation room
    updates,           \* reminder -> update_reminder_notified calls
    delivered,         \* <<reminder, room>> whose send returned normally
    \* the background cycle of ReminderNotifier
    task,              \* ReminderNotifier._task: a background task, or 0 for None
    bg_pc,             \* position of each background task in _background_loop
    must_cancel,       \* tasks whose cancel() was called and not delivered yet
    stop_pc,           \* position of each caller of stop()
    stop_task,         \* the task a caller of stop() is awaiting
    \* history variables of the cycle
    stopped,           \* a stop() returned after the last task was created
    raced,             \* start() created a task while a stop() was awaiting
    cancelled_at,      \* where each task was when its cancellation reached it
    \* AIRouter
    config,            \* the configuration document given to AIRouter(config)
    constructed,       \* AIRouter.__init__ returned (it raised ValueError otherwise)
    resolved,          \* the last call on the router and its outcome
    succeeded,         \* history: the purposes a get_provider_info call returned for
    \* trim_context
    context,           \* the conversation history, trimmed in place of the caller's
    token_budget,      \* its arguments
    prompt_text,
    system_prompt,
    trims,             \* number of trim_context calls made on the history
    original,          \* history: the history before the first call
    previous,          \* history: the history before the last call
    \* Summarizer
    summary_pc,        \* position of the summarize call
    summary_call,      \* its arguments
    summary_prompt,    \* the messages listed in the prompt, in the prompt's order
    summary_result,    \* what the call returned or raised
    \* history variables of the call
    router_calls,      \* calls of AIRouter.get_provider_info it made
    provider_calls,    \* calls of AIProvider.generate it made
    provider_raised,   \* the error its provider call raised, "" for none
    \* VoiceRecorder and the voice_sessions table
    active_recordings, \* _active_recordings: guild -> recording data (NoRecording: no key)
    voice_sessions,    \* the row of each session id: "none", "open", "ended" or "deleted"
    rec_pc,            \* position of each caller of the recorder
    rec_call,          \* the call it is in or made last, and how that call ended
    rec_session,       \* the session_id local of its stop_recording or cancel_recording
    \* history variables of the recorder
    session_guild,     \* the guild each session was created for
    overlapped,        \* the callers whose last call awaited connect() while its did, same guild
    overwritten        \* a start_recording stored its session over a registered one

notifierVars ==
    <<router, semaphore_value, waiters, granted, channel_last_sent, pc, room, idx,
      notified_rooms, sleep_left, called, sent_ok, failed, stale, past_hang,
      true_last_ok>>

reminderVars ==
    <<reminder_ws, room_added, reminder_status, reminder_due, reminder_notified, sweep_pc,
      pending_reminders, ri, rj, notified_count, sweeps, sweep_log, cur_failed, cur_skipped,
      cur_counted, updates, delivered>>

cycleVars ==
    <<task, bg_pc, must_cancel, stop_pc, stop_task, stopped, raced, cancelled_at>>

routerVars == <<config, constructed, resolved, succeeded>>

trimVars == <<context, token_budget, prompt_text, system_prompt, trims, original, previous>>

summaryVars ==
    <<summary_pc, summary_call, summary_prompt, summary_result, router_calls,
      provider_calls, provider_raised>>

recorderVars ==
    <<active_recordings, voice_sessions, rec_pc, rec_call, rec_session, session_guild,
      overlapped, overwritten>>

\* what the steps of one component leave alone
exceptNotifier == <<reminderVars, cycleVars, routerVars, trimVars, summaryVars, recorderVars>>

exceptReminder == <<notifierVars, cycleVars, routerVars, trimVars, summaryVars, recorderVars>>

exceptCycle == <<notifierVars, routerVars, trimVars, summaryVars, recorderVars>>

exceptRouter ==
    <<notifierVars, reminderVars, cycleVars, trimVars, summaryVars, recorderVars>>

exceptTrim == <<notifierVars, reminderVars, cycleVars, routerVars, summaryVars, recorderVars>>

exceptSummary == <<notifierVars, reminderVars, cycleVars, routerVars, trimVars, recorderVars>>

exceptRecorder == <<notifierVars, reminderVars, cycleVars, routerVars, trimVars, summaryVars>>

vars ==
    <<notifierVars, reminderVars, cycleVars, routerVars, trimVars, summaryVars,
      recorderVars>>

\* Database.get_aggregation_rooms: rooms 1 to 5 are in tenant 1; tenant 2 has
\* no room until room 6, an aggregation room, is created in it
get_aggregation_rooms(w) ==
    IF w = 1 THEN <<4, 5>>
    ELSE IF room_added THEN <<6>>
    ELSE <<>>

EmptyMap == [c \in {} |-> 0]

Min(a, b) == IF a < b THEN a ELSE b

\* ------------------------------------------------------- AggregationNotifier

\* AggregationNotifier.__init__; routers: the router argument is an AIRouter
\* (TRUE) or None (FALSE)
InitNotifier(routers) ==
    /\ router \in routers
    /\ semaphore_value = MAX_CONCURRENT_REQUESTS
    /\ waiters = <<>>
    /\ granted = {}
    /\ channel_last_sent = EmptyMap
    /\ pc = [t \in Tasks |-> "idle"]
    /\ room = [t \in Tasks |-> 1]
    /\ idx = [t \in Tasks |-> 1]
    /\ notified_rooms = [t \in Tasks |-> <<>>]
    /\ sleep_left = [t \in Tasks |-> 0]
    /\ called = [t \in Tasks |-> FALSE]
    /\ sent_ok = [t \in Tasks |-> <<>>]
    /\ failed = [t \in Tasks |-> <<>>]
    /\ stale = [t \in Tasks |-> FALSE]
    /\ past_hang = [t \in Tasks |-> FALSE]
    /\ true_last_ok = EmptyMap

\* the destination of the delivery the invocation is at
Dest(t) == AggregationRooms(room[t])[idx[t]]

\* deliveries between acquiring and releasing a slot
InGate == {t \in Tasks : pc[t] \in {"sleep", "lookup", "fetching", "sending", "hung"}}

\* asyncio.Semaphore.locked()
Locked == semaphore_value = 0 \/ Len(waiters) > 0

\* the mutant of CanAcquire: a delivery proceeds without a free slot
CanAcquireAlways == TRUE

\* asyncio.Semaphore.acquire takes a slot at once iff the gate is not locked
CanAcquire == ~Locked

Ungranted(w, g) == SelectSeq(w, LAMBDA x : x \notin g)

\* the first n elements of a sequence, as a set
FirstN(s, n) == {s[i] : i \in 1..Min(n, Len(s))}

\* the mutant of ReleaseSlot: the release wakes no waiter
ReleaseSlotNoWake ==
    /\ semaphore_value' = semaphore_value + 1
    /\ UNCHANGED <<waiters, granted>>

\* asyncio.Semaphore.release: _value += 1, then _wake_up_next hands the slot
\* to the first waiter whose future is not done
ReleaseSlot ==
    LET u == Ungranted(waiters, granted) IN
    IF Len(u) > 0
    THEN /\ granted' = granted \cup {u[1]}
         /\ semaphore_value' = semaphore_value
         /\ waiters' = waiters
    ELSE /\ semaphore_value' = semaphore_value + 1
         /\ UNCHANGED <<waiters, granted>>

\* the mutant of Remaining: the cooldown is not waited for
RemainingNoWait(c) == 0

\* _wait_for_cooldown: remaining = CHANNEL_COOLDOWN_SECONDS - elapsed for a
\* recorded channel; nothing to wait for otherwise
Remaining(c) ==
    IF c \in DOMAIN channel_last_sent
    THEN Cooldown - channel_last_sent[c]
    ELSE 0

\* lines 148 and 176-181, run with the slot in hand: sleep for the remaining
\* cooldown, or go on to the channel lookup
AfterAcquire(t) ==
    LET rem == Remaining(Dest(t)) IN
    /\ stale' = [stale EXCEPT ![t] = FALSE]
    /\ past_hang' = [past_hang EXCEPT ![t] = \E u \in Tasks : pc[u] = "hung"]
    /\ IF rem > 0
       THEN /\ pc' = [pc EXCEPT ![t] = "sleep"]
            /\ sleep_left' = [sleep_left EXCEPT ![t] = rem]
       ELSE /\ pc' = [pc EXCEPT ![t] = "lookup"]
            /\ sleep_left' = sleep_left

\* the loop at line 109 moves to the next aggregation room, or returns
NextPc(t) == IF idx[t] < Len(AggregationRooms(room[t])) THEN "loop" ELSE "done"

Advance(t) ==
    /\ pc' = [pc EXCEPT ![t] = NextPc(t)]
    /\ idx' = [idx EXCEPT ![t] = IF NextPc(t) = "loop" THEN idx[t] + 1 ELSE idx[t]]

\* a delivery raises inside the gate: the async with releases the slot, the
\* handler at lines 119-120 logs, and the loop goes on
DeliveryFails(t) ==
    /\ ReleaseSlot
    /\ failed' = [failed EXCEPT ![t] = Append(failed[t], Dest(t))]
    /\ Advance(t)
    /\ UNCHANGED <<router, channel_last_sent, room, notified_rooms, sleep_left,
                   sent_ok, stale, past_hang, true_last_ok>>

\* notify_new_message on a room with no linked aggregation room (lines 89-97)
NotifyNoTargets(t, r) ==
    /\ pc[t] = "idle"
    /\ AggregationRooms(r) = <<>>
    /\ pc' = [pc EXCEPT ![t] = "done"]
    /\ room' = [room EXCEPT ![t] = r]
    /\ UNCHANGED <<router, semaphore_value, waiters, granted, channel_last_sent, idx,
                   notified_rooms, sleep_left, called, sent_ok, failed, stale, past_hang,
                   true_last_ok>>

\* notify_new_message up to the loop (lines 89-109).  find_similar asks for the
\* similarity search, has_keywords says whether _extract_keywords finds one;
\* the search runs through db.search_messages and returns
NotifyStart(t, r, find_similar, has_keywords) ==
    /\ pc[t] = "idle"
    /\ AggregationRooms(r) # <<>>
    /\ pc' = [pc EXCEPT ![t] = "loop"]
    /\ room' = [room EXCEPT ![t] = r]
    /\ called' = [called EXCEPT ![t] = find_similar /\ router /\ has_keywords]
    /\ UNCHANGED <<router, semaphore_value, waiters, granted, channel_last_sent, idx,
                   notified_rooms, sleep_left, sent_ok, failed, stale, past_hang, true_last_ok>>

\* the same, with db.search_messages raising inside _find_similar_messages
\* (lines 292-296): neither _find_similar_messages nor lines 101-106 catch it
NotifySearchRaises(t, r) ==
    /\ pc[t] = "idle"
    /\ AggregationRooms(r) # <<>>
    /\ router
    /\ pc' = [pc EXCEPT ![t] = "raised"]
    /\ room' = [room EXCEPT ![t] = r]
    /\ called' = [called EXCEPT ![t] = TRUE]
    /\ UNCHANGED <<router, semaphore_value, waiters, granted, channel_last_sent, idx,
                   notified_rooms, sleep_left, sent_ok, failed, stale, past_hang, true_last_ok>>

\* async with self._semaphore (line 146), then the cooldown check when the
\* slot is free
Acquire(t) ==
    /\ pc[t] = "loop"
    /\ called' = [called EXCEPT ![t] = TRUE]
    /\ IF CanAcquire
       THEN /\ semaphore_value' = semaphore_value - 1
            /\ waiters' = waiters
            /\ AfterAcquire(t)
       ELSE /\ waiters' = Append(waiters, t)
            /\ pc' = [pc EXCEPT ![t] = "wait_sem"]
            /\ UNCHANGED <<semaphore_value, sleep_left, stale, past_hang>>
    /\ UNCHANGED <<router, granted, channel_last_sent, room, idx, notified_rooms,
                   sent_ok, failed, true_last_ok>>

\* a waiter whose future was completed by a release resumes in acquire: it
\* leaves the queue, passes on the slots that are free, and owns its slot
Resume(t) ==
    /\ pc[t] = "wait_sem"
    /\ t \in granted
    /\ LET w2 == SelectSeq(waiters, LAMBDA x : x # t)
           g2 == granted \ {t}
           u == Ungranted(w2, g2)
           n == Min(semaphore_value, Len(u))
       IN /\ waiters' = w2
          /\ granted' = g2 \cup FirstN(u, n)
          /\ semaphore_value' = semaphore_value - n
    /\ AfterAcquire(t)
    /\ UNCHANGED <<router, channel_last_sent, room, idx, notified_rooms, called,
                   sent_ok, failed, true_last_ok>>

\* asyncio.sleep(remaining) returns (line 181)
Wake(t) ==
    /\ pc[t] = "sleep"
    /\ sleep_left[t] = 0
    /\ pc' = [pc EXCEPT ![t] = "lookup"]
    /\ UNCHANGED <<router, semaphore_value, waiters, granted, channel_last_sent, room,
                   idx, notified_rooms, sleep_left, called, sent_ok, failed, stale, past_hang,
                   true_last_ok>>

\* bot.get_channel (lines 151-165): a cached text channel is sent to, a cached
\* channel of another kind raises NotificationError, None leads to fetch_channel
GetChannel(t) ==
    /\ pc[t] = "lookup"
    /\ \/ /\ pc' = [pc EXCEPT ![t] = "sending"]
          /\ called' = [called EXCEPT ![t] = TRUE]
          /\ UNCHANGED <<router, semaphore_value, waiters, granted, channel_last_sent,
                         room, idx, notified_rooms, sleep_left, sent_ok, failed, stale, past_hang,
                         true_last_ok>>
       \/ /\ pc' = [pc EXCEPT ![t] = "fetching"]
          /\ called' = [called EXCEPT ![t] = TRUE]
          /\ UNCHANGED <<router, semaphore_value, waiters, granted, channel_last_sent,
                         room, idx, notified_rooms, sleep_left, sent_ok, failed, stale, past_hang,
                         true_last_ok>>
       \/ /\ called' = [called EXCEPT ![t] = TRUE]
          /\ DeliveryFails(t)

\* bot.fetch_channel returns a text channel, returns another kind of channel,
\* or raises (lines 153-156)
FetchReturn(t) ==
    /\ pc[t] = "fetching"
    /\ \/ /\ pc' = [pc EXCEPT ![t] = "sending"]
          /\ called' = [called EXCEPT ![t] = TRUE]
          /\ UNCHANGED <<router, semaphore_value, waiters, granted, channel_last_sent,
                         room, idx, notified_rooms, sleep_left, sent_ok, failed, stale, past_hang,
                         true_last_ok>>
       \/ /\ called' = called
          /\ DeliveryFails(t)

\* the mutant of RecordSend: the instant is recorded whether or not the send
\* succeeded
RecordSendAlways(t, ok) ==
    channel_last_sent' =
        [c \in DOMAIN channel_last_sent \cup {Dest(t)} |->
            IF c = Dest(t) THEN 0 ELSE channel_last_sent[c]]

\* line 168, reached only when channel.send returned
RecordSend(t, ok) ==
    channel_last_sent' =
        IF ok
        THEN [c \in DOMAIN channel_last_sent \cup {Dest(t)} |->
                 IF c = Dest(t) THEN 0 ELSE channel_last_sent[c]]
        ELSE channel_last_sent

\* the mutant of NotifiedAfter: a failed destination is reported as notified
NotifiedAfterAlways(t, ok) == Append(notified_rooms[t], Dest(t))

\* line 117 runs when _send_notification returned, not when it raised
NotifiedAfter(t, ok) ==
    IF ok THEN Append(notified_rooms[t], Dest(t)) ELSE notified_rooms[t]

\* channel.send returns or raises (lines 165-168, then 117-120)
SendReturn(t, ok) ==
    /\ pc[t] = "sending"
    /\ RecordSend(t, ok)
    /\ notified_rooms' = [notified_rooms EXCEPT ![t] = NotifiedAfter(t, ok)]
    /\ ReleaseSlot
    /\ Advance(t)
    /\ IF ok
       THEN /\ sent_ok' = [sent_ok EXCEPT ![t] = Append(sent_ok[t], Dest(t))]
            /\ failed' = failed
            /\ true_last_ok' =
                   [c \in DOMAIN true_last_ok \cup {Dest(t)} |->
                       IF c = Dest(t) THEN 0 ELSE true_last_ok[c]]
            /\ stale' = [u \in Tasks |->
                           IF u # t /\ u \in InGate /\ Dest(u) = Dest(t)
                           THEN TRUE ELSE stale[u]]
       ELSE /\ failed' = [failed EXCEPT ![t] = Append(failed[t], Dest(t))]
            /\ UNCHANGED <<sent_ok, true_last_ok, stale>>
    /\ UNCHANGED <<router, room, sleep_left, called, past_hang>>

\* channel.send never returns; at most one delivery hangs
SendHangs(t) ==
    /\ pc[t] = "sending"
    /\ \A u \in Tasks : pc[u] # "hung"
    /\ pc' = [pc EXCEPT ![t] = "hung"]
    /\ UNCHANGED <<router, semaphore_value, waiters, granted, channel_last_sent, room,
                   idx, notified_rooms, sleep_left, called, sent_ok, failed, stale, past_hang,
                   true_last_ok>>

\* the mutant of ExitReleases: the slot is released on the normal path only
ExitKeepsSlot == UNCHANGED <<semaphore_value, waiters, granted>>

\* the __aexit__ of async with self._semaphore (line 146), run when the body
\* is left by an exception as well
ExitReleases == ReleaseSlot

\* the invocation is cancelled while suspended inside the gate (in the
\* cooldown sleep, fetch_channel or channel.send): CancelledError leaves the
\* async with, which releases the slot, and, not being an Exception, passes
\* the handler of line 119 and ends notify_new_message.  One cancellation is
\* explored; sleep_left keeps the part of the sleep that was cut.
CancelInGate(t) ==
    /\ pc[t] \in {"sleep", "fetching", "sending"}
    /\ \A u \in Tasks : pc[u] # "cancelled"
    /\ ExitReleases
    /\ pc' = [pc EXCEPT ![t] = "cancelled"]
    /\ UNCHANGED <<router, channel_last_sent, room, idx, notified_rooms, sleep_left, called,
                   sent_ok, failed, stale, past_hang, true_last_ok>>

\* the invocation is cancelled while it waits for a slot
\* (asyncio.Semaphore.acquire): its future leaves the queue; when a release
\* had already completed the future, the slot it was given is released
CancelWaiting(t) ==
    /\ pc[t] = "wait_sem"
    /\ \A u \in Tasks : pc[u] # "cancelled"
    /\ LET w2 == SelectSeq(waiters, LAMBDA x : x # t)
           g2 == granted \ {t}
           u == Ungranted(w2, g2)
       IN /\ waiters' = w2
          /\ IF t \in granted /\ Len(u) > 0
             THEN granted' = g2 \cup {u[1]} /\ semaphore_value' = semaphore_value
             ELSE IF t \in granted
             THEN granted' = g2 /\ semaphore_value' = semaphore_value + 1
             ELSE granted' = g2 /\ semaphore_value' = semaphore_value
    /\ pc' = [pc EXCEPT ![t] = "cancelled"]
    /\ UNCHANGED <<router, channel_last_sent, room, idx, notified_rooms, sleep_left, called,
                   sent_ok, failed, stale, past_hang, true_last_ok>>

\* one tick of time.monotonic()
Tick ==
    /\ channel_last_sent' =
           [c \in DOMAIN channel_last_sent |-> Min(channel_last_sent[c] + 1, Cooldown)]
    /\ true_last_ok' =
           [c \in DOMAIN true_last_ok |-> Min(true_last_ok[c] + 1, Cooldown)]
    /\ sleep_left' = [t \in Tasks |->
                          IF pc[t] = "sleep" /\ sleep_left[t] > 0 THEN sleep_left[t] - 1
                          ELSE sleep_left[t]]
    /\ UNCHANGED <<router, semaphore_value, waiters, granted, pc, room, idx,
                   notified_rooms, called, sent_ok, failed, stale, past_hang>>

\* one step of invocation t
TaskStep(t) ==
    \/ Acquire(t)
    \/ Resume(t)
    \/ Wake(t)
    \/ GetChannel(t)
    \/ FetchReturn(t)
    \/ \E ok \in BOOLEAN : SendReturn(t, ok)

NextNotifier ==
    \/ \E t \in Tasks, r \in SourceRooms : NotifyNoTargets(t, r) /\ UNCHANGED exceptNotifier
    \/ \E t \in Tasks, r \in SourceRooms, fs \in BOOLEAN, kw \in BOOLEAN :
           NotifyStart(t, r, fs, kw) /\ UNCHANGED exceptNotifier
    \/ \E t \in Tasks, r \in SourceRooms : NotifySearchRaises(t, r) /\ UNCHANGED exceptNotifier
    \/ \E t \in Tasks : Acquire(t) /\ UNCHANGED exceptNotifier
    \/ \E t \in Tasks : Resume(t) /\ UNCHANGED exceptNotifier
    \/ \E t \in Tasks : Wake(t) /\ UNCHANGED exceptNotifier
    \/ \E t \in Tasks : GetChannel(t) /\ UNCHANGED exceptNotifier
    \/ \E t \in Tasks : FetchReturn(t) /\ UNCHANGED exceptNotifier
    \/ \E t \in Tasks, ok \in BOOLEAN : SendReturn(t, ok) /\ UNCHANGED exceptNotifier
    \/ \E t \in Tasks : SendHangs(t) /\ UNCHANGED exceptNotifier
    \/ Tick /\ UNCHANGED exceptNotifier

\* the same invocations, one of which may be cancelled; every send ends
NextNotifierCancel ==
    \/ \E t \in Tasks, r \in SourceRooms : NotifyNoTargets(t, r) /\ UNCHANGED exceptNotifier
    \/ \E t \in Tasks, r \in SourceRooms, fs \in BOOLEAN, kw \in BOOLEAN :
           NotifyStart(t, r, fs, kw) /\ UNCHANGED exceptNotifier
    \/ \E t \in Tasks, r \in SourceRooms : NotifySearchRaises(t, r) /\ UNCHANGED exceptNotifier
    \/ \E t \in Tasks : Acquire(t) /\ UNCHANGED exceptNotifier
    \/ \E t \in Tasks : Resume(t) /\ UNCHANGED exceptNotifier
    \/ \E t \in Tasks : Wake(t) /\ UNCHANGED exceptNotifier
    \/ \E t \in Tasks : GetChannel(t) /\ UNCHANGED exceptNotifier
    \/ \E t \in Tasks : FetchReturn(t) /\ UNCHANGED exceptNotifier
    \/ \E t \in Tasks, ok \in BOOLEAN : SendReturn(t, ok) /\ UNCHANGED exceptNotifier
    \/ \E t \in Tasks : CancelInGate(t) /\ UNCHANGED exceptNotifier
    \/ \E t \in Tasks : CancelWaiting(t) /\ UNCHANGED exceptNotifier
    \/ Tick /\ UNCHANGED exceptNotifier


\* ---------------------------------------------------------- ReminderNotifier

\* ReminderNotifier.__init__, over a reminders table whose rows are in the
\* tenants W, have a status of S, are due or not as D says and have a flag of N
InitReminder(W, S, D, N) ==
    /\ reminder_ws \in [Reminders -> W]
    /\ reminder_status \in [Reminders -> S]
    /\ reminder_due \in [Reminders -> D]
    /\ reminder_notified \in [Reminders -> N]
    /\ room_added = FALSE
    /\ sweep_pc = "idle"
    /\ pending_reminders = <<>>
    /\ ri = 1
    /\ rj = 1
    /\ notified_count = 0
    /\ sweeps = 0
    /\ sweep_log = <<>>
    /\ cur_failed = {}
    /\ cur_counted = {}
    /\ cur_skipped = {}
    /\ updates = [r \in Reminders |-> 0]
    /\ delivered = {}

\* the WHERE clause of Database.get_pending_reminders
IsPending(r) ==
    /\ reminder_status[r] = "pending"
    /\ ~reminder_notified[r]
    /\ reminder_due[r]

RECURSIVE AscendingFrom(_, _)
\* the members of S that are >= n, ascending
AscendingFrom(n, S) ==
    IF n > NumReminders THEN <<>>
    ELSE IF n \in S THEN <<n>> \o AscendingFrom(n + 1, S)
    ELSE AscendingFrom(n + 1, S)

\* Database.get_pending_reminders; reminders are numbered by due date
get_pending_reminders == AscendingFrom(1, {r \in Reminders : IsPending(r)})

CurReminder == pending_reminders[ri]

CurRooms == get_aggregation_rooms(reminder_ws[CurReminder])

LogEntry(did_raise) ==
    [pending |-> pending_reminders, failed |-> cur_failed, counted |-> cur_counted,
     skipped |-> cur_skipped, ret |-> notified_count, raised |-> did_raise]

\* the reminder loop goes to its next reminder, or the call returns the count
\* (lines 375, 396)
NextReminder ==
    IF ri < Len(pending_reminders)
    THEN /\ ri' = ri + 1
         /\ sweep_pc' = "reminder"
         /\ UNCHANGED <<sweeps, sweep_log>>
    ELSE /\ ri' = ri
         /\ sweep_pc' = "idle"
         /\ sweeps' = sweeps + 1
         /\ sweep_log' = Append(sweep_log, LogEntry(FALSE)')

\* check_and_notify, lines 366-373
SweepStart ==
    /\ sweep_pc = "idle"
    /\ sweeps < MaxSweeps
    /\ pending_reminders' = get_pending_reminders
    /\ ri' = 1
    /\ rj' = 1
    /\ notified_count' = 0
    /\ cur_failed' = {}
    /\ cur_counted' = {}
    /\ cur_skipped' = {}
    /\ IF get_pending_reminders = <<>>
       THEN /\ sweep_pc' = "idle"
            /\ sweeps' = sweeps + 1
            /\ sweep_log' = Append(sweep_log, LogEntry(FALSE)')
       ELSE /\ sweep_pc' = "reminder"
            /\ UNCHANGED <<sweeps, sweep_log>>
    /\ UNCHANGED <<reminder_ws, room_added, reminder_status, reminder_due, reminder_notified,
                   updates, delivered>>

\* db.get_pending_reminders raises (line 369): the call raises to its caller
SweepLookupRaises ==
    /\ sweep_pc = "idle"
    /\ sweeps < MaxSweeps
    /\ pending_reminders' = <<>>
    /\ ri' = 1
    /\ rj' = 1
    /\ notified_count' = 0
    /\ cur_failed' = {}
    /\ cur_counted' = {}
    /\ cur_skipped' = {}
    /\ sweep_pc' = "idle"
    /\ sweeps' = sweeps + 1
    /\ sweep_log' = Append(sweep_log, LogEntry(TRUE)')
    /\ UNCHANGED <<reminder_ws, room_added, reminder_status, reminder_due, reminder_notified,
                   updates, delivered>>

\* the mutant of FlagOnSkip: a skipped reminder is marked as notified
FlagOnSkipSet(r) == [reminder_notified EXCEPT ![r] = TRUE]

\* the continue at line 382 leaves the reminder's row as it is
FlagOnSkip(r) == reminder_notified

\* lines 375-382: the tenant's aggregation rooms; a reminder without any is
\* skipped
ReminderStep ==
    /\ sweep_pc = "reminder"
    /\ UNCHANGED <<reminder_ws, room_added, reminder_status, reminder_due,
                   pending_reminders, notified_count, cur_failed, cur_counted, updates,
                   delivered>>
    /\ IF CurRooms = <<>>
       THEN /\ reminder_notified' = FlagOnSkip(CurReminder)
            /\ cur_skipped' = cur_skipped \cup {CurReminder}
            /\ rj' = rj
            /\ NextReminder
       ELSE /\ sweep_pc' = "room"
            /\ rj' = 1
            /\ UNCHANGED <<reminder_notified, cur_skipped, ri, sweeps, sweep_log>>

\* the mutant of FlagOnFailure: the flag records the attempt, not the delivery
FlagOnFailureSet(r) == [reminder_notified EXCEPT ![r] = TRUE]

\* a delivery that raises leaves the try block before line 389
FlagOnFailure(r) == reminder_notified

\* the mutant of CountOnFailure: a reminder whose delivery failed is counted
CountOnFailurePlusOne == notified_count + 1

\* a delivery that raises leaves the try block before line 390
CountOnFailure == notified_count

\* _send_reminder_notification raises: the handler at lines 393-394 logs and
\* the reminder loop goes on; the rooms left and lines 389-390 are skipped
ReminderFails ==
    /\ cur_failed' = cur_failed \cup {CurReminder}
    /\ reminder_notified' = FlagOnFailure(CurReminder)
    /\ notified_count' = CountOnFailure
    /\ UNCHANGED <<reminder_ws, room_added, reminder_status, reminder_due, pending_reminders, rj,
                   cur_counted, cur_skipped, updates, delivered>>
    /\ NextReminder

\* lines 409-417: a cached text channel, no cached channel, or a channel id
\* or channel that cannot be sent to
ReminderGetChannel ==
    /\ sweep_pc = "room"
    /\ \/ /\ sweep_pc' = "sending"
          /\ UNCHANGED <<reminder_ws, room_added, reminder_status, reminder_due, reminder_notified,
                         pending_reminders, ri, rj, notified_count, sweeps, sweep_log,
                         cur_failed, cur_skipped, cur_counted, updates, delivered>>
       \/ /\ sweep_pc' = "fetching"
          /\ UNCHANGED <<reminder_ws, room_added, reminder_status, reminder_due, reminder_notified,
                         pending_reminders, ri, rj, notified_count, sweeps, sweep_log,
                         cur_failed, cur_skipped, cur_counted, updates, delivered>>
       \/ ReminderFails

\* bot.fetch_channel returns a text channel, or raises / returns another kind
ReminderFetchReturn ==
    /\ sweep_pc = "fetching"
    /\ \/ /\ sweep_pc' = "sending"
          /\ UNCHANGED <<reminder_ws, room_added, reminder_status, reminder_due, reminder_notified,
                         pending_reminders, ri, rj, notified_count, sweeps, sweep_log,
                         cur_failed, cur_skipped, cur_counted, updates, delivered>>
       \/ ReminderFails

\* the mutant of UpdatesAfter: the flag is written once for each room
UpdatesAfterEachRoom(r, last) == [updates EXCEPT ![r] = @ + 1]

\* update_reminder_notified is called after the room loop (line 389)
UpdatesAfter(r, last) == IF last THEN [updates EXCEPT ![r] = @ + 1] ELSE updates

\* channel.send returned (line 422): the next room, or lines 389-391 after the
\* last one
ReminderSendOk ==
    /\ sweep_pc = "sending"
    /\ delivered' = delivered \cup {<<CurReminder, CurRooms[rj]>>}
    /\ updates' = UpdatesAfter(CurReminder, rj = Len(CurRooms))
    /\ UNCHANGED <<reminder_ws, room_added, reminder_status, reminder_due, pending_reminders,
                   cur_failed, cur_skipped>>
    /\ IF rj < Len(CurRooms)
       THEN /\ rj' = rj + 1
            /\ sweep_pc' = "room"
            /\ UNCHANGED <<reminder_notified, notified_count, cur_counted, ri, sweeps,
                           sweep_log>>
       ELSE /\ reminder_notified' = [reminder_notified EXCEPT ![CurReminder] = TRUE]
            /\ notified_count' = notified_count + 1
            /\ cur_counted' = cur_counted \cup {CurReminder}
            /\ rj' = rj
            /\ NextReminder

\* channel.send raises
ReminderSendRaises ==
    /\ sweep_pc = "sending"
    /\ ReminderFails

\* Database.create_room(workspace_id=2, ..., room_type="aggregation"), at any
\* moment
CreateAggregationRoom ==
    /\ ~room_added
    /\ room_added' = TRUE
    /\ UNCHANGED <<reminder_ws, reminder_status, reminder_due, reminder_notified, sweep_pc,
                   pending_reminders, ri, rj, notified_count, sweeps, sweep_log, cur_failed,
                   cur_skipped, cur_counted, updates, delivered>>

NextReminderNotifier ==
    \/ CreateAggregationRoom /\ UNCHANGED exceptReminder
    \/ SweepStart /\ UNCHANGED exceptReminder
    \/ SweepLookupRaises /\ UNCHANGED exceptReminder
    \/ ReminderStep /\ UNCHANGED exceptReminder
    \/ ReminderGetChannel /\ UNCHANGED exceptReminder
    \/ ReminderFetchReturn /\ UNCHANGED exceptReminder
    \/ ReminderSendOk /\ UNCHANGED exceptReminder
    \/ ReminderSendRaises /\ UNCHANGED exceptReminder

\* ------------------------------------- ReminderNotifier: start, stop, the loop

\* ReminderNotifier.__init__, line 358; registered: the values _task starts with
InitCycle(registered) ==
    /\ task \in registered
    /\ bg_pc = [k \in BgTasks |-> "none"]
    /\ must_cancel = {}
    /\ stop_pc = [c \in Callers |-> "idle"]
    /\ stop_task = [c \in Callers |-> 0]
    /\ stopped = FALSE
    /\ raced = FALSE
    /\ cancelled_at = [k \in BgTasks |-> "none"]

\* the task has been created and has not finished
Alive(k) == bg_pc[k] \in {"new", "sweep", "sleep"}

\* the task whose check_and_notify call the sweep variables describe
Sweeper == {k \in BgTasks : bg_pc[k] = "sweep"}

\* the task asyncio.create_task returns: the first one not yet created
NewTask == CHOOSE k \in BgTasks : bg_pc[k] = "none" /\ \A j \in BgTasks : bg_pc[j] = "none" => k <= j

\* ReminderNotifier.start (lines 451-458): nothing when a task is registered
Start ==
    /\ task # 0 \/ \E k \in BgTasks : bg_pc[k] = "none"
    /\ IF task # 0
       THEN UNCHANGED cycleVars
       ELSE /\ task' = NewTask
            /\ bg_pc' = [bg_pc EXCEPT ![NewTask] = "new"]
            /\ stopped' = FALSE
            /\ raced' = (raced \/ \E c \in Callers : stop_pc[c] = "awaiting")
            /\ UNCHANGED <<must_cancel, stop_pc, stop_task, cancelled_at>>
    /\ UNCHANGED <<reminderVars, exceptCycle>>

\* the mutant of AwaitDone: stop() does not wait for the task to finish
AwaitDoneAlways(k) == TRUE

\* await self._task (line 465) returns or raises once the task has finished
AwaitDone(k) == bg_pc[k] \in {"cancelled", "failed"}

\* contextlib.suppress(asyncio.CancelledError) (line 464): the await of a
\* cancelled task is absorbed, any other exception of the task leaves stop()
StopOutcome(k) == IF bg_pc[k] = "failed" THEN "raised" ELSE "returned"

\* ReminderNotifier.stop up to its await (lines 460-465): nothing when no task
\* is registered; cancel() does nothing to a finished task, and awaiting a
\* finished task does not suspend
Stop(c) ==
    /\ stop_pc[c] \in {"idle", "returned"}
    /\ IF task = 0
       THEN /\ stop_pc' = [stop_pc EXCEPT ![c] = "returned"]
            /\ stopped' = TRUE
            /\ UNCHANGED <<task, must_cancel, stop_task>>
       ELSE IF ~Alive(task)
       THEN /\ stop_pc' = [stop_pc EXCEPT ![c] = StopOutcome(task)]
            /\ task' = IF StopOutcome(task) = "returned" THEN 0 ELSE task
            /\ stopped' = TRUE
            /\ UNCHANGED <<must_cancel, stop_task>>
       ELSE /\ must_cancel' = must_cancel \cup {task}
            /\ stop_pc' = [stop_pc EXCEPT ![c] = "awaiting"]
            /\ stop_task' = [stop_task EXCEPT ![c] = task]
            /\ UNCHANGED <<task, stopped>>
    /\ UNCHANGED <<bg_pc, raced, cancelled_at>>
    /\ UNCHANGED <<reminderVars, exceptCycle>>

\* the awaited task has finished: lines 465-467
StopResume(c) ==
    /\ stop_pc[c] = "awaiting"
    /\ AwaitDone(stop_task[c])
    /\ stop_pc' = [stop_pc EXCEPT ![c] = StopOutcome(stop_task[c])]
    /\ task' = IF StopOutcome(stop_task[c]) = "returned" THEN 0 ELSE task
    /\ stop_task' = [stop_task EXCEPT ![c] = 0]
    /\ stopped' = TRUE
    /\ UNCHANGED <<bg_pc, must_cancel, raced, cancelled_at>>
    /\ UNCHANGED <<reminderVars, exceptCycle>>

\* where the task is once check_and_notify has run to its next await: inside
\* the call, or in asyncio.sleep(check_interval) when the call has ended
AfterSweepStep(k) ==
    [bg_pc EXCEPT ![k] = IF sweep_pc' = "idle" THEN "sleep" ELSE "sweep"]

\* the mutant of LoopAbsorbs: the loop has no handler
LoopAbsorbsNothing == FALSE

\* except Exception at line 473
LoopAbsorbs == TRUE

\* _background_loop calls check_and_notify (line 472), at its start or when
\* asyncio.sleep returns.  The sweeps of two tasks are explored one after the
\* other.
LoopSweep(k) ==
    /\ bg_pc[k] \in {"new", "sleep"}
    /\ k \notin must_cancel
    /\ Sweeper = {}
    /\ SweepStart
    /\ bg_pc' = AfterSweepStep(k)
    /\ UNCHANGED <<task, must_cancel, stop_pc, stop_task, stopped, raced, cancelled_at>>
    /\ UNCHANGED exceptCycle

\* the same, with check_and_notify raising (lines 473-476)
LoopSweepRaises(k) ==
    /\ bg_pc[k] \in {"new", "sleep"}
    /\ k \notin must_cancel
    /\ Sweeper = {}
    /\ SweepLookupRaises
    /\ bg_pc' = [bg_pc EXCEPT ![k] = IF LoopAbsorbs THEN "sleep" ELSE "failed"]
    /\ UNCHANGED <<task, must_cancel, stop_pc, stop_task, stopped, raced, cancelled_at>>
    /\ UNCHANGED exceptCycle

\* the task goes on in check_and_notify by the step A
LoopStep(k, A) ==
    /\ bg_pc[k] = "sweep"
    /\ k \notin must_cancel
    /\ A
    /\ bg_pc' = AfterSweepStep(k)
    /\ UNCHANGED <<task, must_cancel, stop_pc, stop_task, stopped, raced, cancelled_at>>
    /\ UNCHANGED exceptCycle

\* the cancellation reaches the task where it is suspended: CancelledError is
\* not an Exception, so neither line 393 nor line 473 catches it, and the
\* task ends
LoopCancelled(k) ==
    /\ k \in must_cancel
    /\ Alive(k)
    /\ bg_pc' = [bg_pc EXCEPT ![k] = "cancelled"]
    /\ must_cancel' = must_cancel \ {k}
    /\ cancelled_at' = [cancelled_at EXCEPT ![k] = IF bg_pc[k] = "sweep" THEN sweep_pc ELSE bg_pc[k]]
    /\ sweep_pc' = IF bg_pc[k] = "sweep" THEN "idle" ELSE sweep_pc
    /\ UNCHANGED <<reminder_ws, room_added, reminder_status, reminder_due, reminder_notified,
                   pending_reminders, ri, rj, notified_count, sweeps, sweep_log, cur_failed,
                   cur_skipped, cur_counted, updates, delivered>>
    /\ UNCHANGED <<task, stop_pc, stop_task, stopped, raced>>
    /\ UNCHANGED exceptCycle

NextCycle ==
    \/ Start
    \/ \E c \in Callers : Stop(c)
    \/ \E c \in Callers : StopResume(c)
    \/ \E k \in BgTasks : LoopSweep(k)
    \/ \E k \in BgTasks : LoopSweepRaises(k)
    \/ \E k \in BgTasks : LoopStep(k, ReminderStep)
    \/ \E k \in BgTasks : LoopStep(k, ReminderGetChannel)
    \/ \E k \in BgTasks : LoopStep(k, ReminderFetchReturn)
    \/ \E k \in BgTasks : LoopStep(k, ReminderSendOk)
    \/ \E k \in BgTasks : LoopStep(k, ReminderSendRaises)
    \/ \E k \in BgTasks : LoopCancelled(k)

\* the steps the event loop runs for a background task: its coroutine goes on
\* when what it awaits is done, and a requested cancellation is delivered
LoopRun(k) ==
    \/ LoopSweep(k)
    \/ LoopSweepRaises(k)
    \/ LoopStep(k, ReminderStep)
    \/ LoopStep(k, ReminderGetChannel)
    \/ LoopStep(k, ReminderFetchReturn)
    \/ LoopStep(k, ReminderSendOk)
    \/ LoopStep(k, ReminderSendRaises)
    \/ LoopCancelled(k)

\* ------------------------------------------------------------------ AIRouter

Purposes == {"summary", "rag_answer"}

\* a {provider, model} entry of a routing table; "" stands for a missing or
\* empty value (an undefined environment variable expands to "").  Of the two
\* provider names only "openai" has an entry in ai_providers.
Entries ==
    [provider : {"openai"}, model : {"gpt-4o-mini", "gpt-4o"}]
        \cup [provider : {"groq"}, model : {"llama-3", ""}]

\* the entries of a well-formed document
FullEntries == {e \in Entries : e.model # ""}

\* the dicts from some purposes of P to entries
Tables(P) == UNION {[D -> Entries] : D \in SUBSET P}

\* the lists of at most n entries of E
RECURSIVE ListsUpTo(_, _)
ListsUpTo(E, n) ==
    IF n = 0 THEN {<<>>}
    ELSE ListsUpTo(E, n - 1)
         \cup {Append(l, e) : l \in {m \in ListsUpTo(E, n - 1) : Len(m) = n - 1}, e \in E}

\* the configuration documents explored: keys are the top-level keys present;
\* the override tables hold the room "room_1" and the tenant "workspace_a",
\* and an absent optional table reads as an empty one (lines 111, 117, 173)
Configs ==
    {[keys |-> {"ai_providers", "ai_routing"},
      ai_providers |-> {"openai"},
      ai_routing |-> g,
      workspace_overrides |-> [w \in {"workspace_a"} |-> t],
      room_overrides |-> [r \in {"room_1"} |-> o],
      ai_fallback |-> f] :
        g \in Tables(Purposes), t \in Tables({"summary"}), o \in Tables({"summary"}),
        f \in UNION {[D -> ListsUpTo(FullEntries, MaxFallbacks)] : D \in SUBSET {"summary"}}}
    \cup
    {[keys |-> k,
      ai_providers |-> {},
      ai_routing |-> [p \in {} |-> 0],
      workspace_overrides |-> [w \in {} |-> 0],
      room_overrides |-> [r \in {} |-> 0],
      ai_fallback |-> [p \in {} |-> 0]] :
        k \in {{}, {"ai_providers"}, {"ai_routing"}}}

\* the mutant of validate_config: the entries are checked against the
\* provider table when the router is built
validate_config_eager(c) ==
    /\ "ai_providers" \in c.keys
    /\ "ai_routing" \in c.keys
    /\ \A p \in DOMAIN c.ai_routing : c.ai_routing[p].provider \in c.ai_providers
    /\ \A r \in DOMAIN c.room_overrides : \A p \in DOMAIN c.room_overrides[r] :
           c.room_overrides[r][p].provider \in c.ai_providers
    /\ \A w \in DOMAIN c.workspace_overrides : \A p \in DOMAIN c.workspace_overrides[w] :
           c.workspace_overrides[w][p].provider \in c.ai_providers

\* AIRouter._validate_config raises no ValueError (lines 71-78)
validate_config(c) ==
    /\ c.keys # {}
    /\ "ai_providers" \in c.keys
    /\ "ai_routing" \in c.keys

NoCall ==
    [call |-> "none", purpose |-> "", workspace_id |-> "", room_id |-> "",
     outcome |-> "none", provider |-> "", model |-> "", error_purpose |-> "",
     candidates |-> <<>>]

\* raise AIProviderNotConfiguredError(purpose, provider=provider); "" is None
NotConfigured(purpose, provider) ==
    [outcome |-> "raised", provider |-> provider, model |-> "", error_purpose |-> purpose]

\* return {"provider": provider_name, "model": model_name}
ProviderInfo(provider, model) ==
    [outcome |-> "returned", provider |-> provider, model |-> model, error_purpose |-> ""]

\* AIRouter._validate_and_return (lines 144-155)
validate_and_return(provider_info, purpose) ==
    IF provider_info.provider = "" \/ provider_info.model = ""
    THEN NotConfigured(purpose, "")
    ELSE IF provider_info.provider \notin config.ai_providers
    THEN NotConfigured(purpose, provider_info.provider)
    ELSE ProviderInfo(provider_info.provider, provider_info.model)

\* the mutant of get_provider_info: the tenant level is looked up first
get_provider_info_tenant_first(purpose, workspace_id, room_id) ==
    IF /\ workspace_id # ""
       /\ workspace_id \in DOMAIN config.workspace_overrides
       /\ purpose \in DOMAIN config.workspace_overrides[workspace_id]
    THEN validate_and_return(config.workspace_overrides[workspace_id][purpose], purpose)
    ELSE IF /\ room_id # ""
            /\ room_id \in DOMAIN config.room_overrides
            /\ purpose \in DOMAIN config.room_overrides[room_id]
    THEN validate_and_return(config.room_overrides[room_id][purpose], purpose)
    ELSE IF purpose \in DOMAIN config.ai_routing
    THEN validate_and_return(config.ai_routing[purpose], purpose)
    ELSE NotConfigured(purpose, "")

\* AIRouter.get_provider_info (lines 109-129); "" is None
get_provider_info(purpose, workspace_id, room_id) ==
    IF /\ room_id # ""
       /\ room_id \in DOMAIN config.room_overrides
       /\ purpose \in DOMAIN config.room_overrides[room_id]
    THEN validate_and_return(config.room_overrides[room_id][purpose], purpose)
    ELSE IF /\ workspace_id # ""
            /\ workspace_id \in DOMAIN config.workspace_overrides
            /\ purpose \in DOMAIN config.workspace_overrides[workspace_id]
    THEN validate_and_return(config.workspace_overrides[workspace_id][purpose], purpose)
    ELSE IF purpose \in DOMAIN config.ai_routing
    THEN validate_and_return(config.ai_routing[purpose], purpose)
    ELSE NotConfigured(purpose, "")

\* AIRouter.get_fallback_info (lines 173-179)
get_fallback_info(purpose) ==
    IF purpose \notin DOMAIN config.ai_fallback
    THEN <<>>
    ELSE [i \in DOMAIN config.ai_fallback[purpose] |->
             [provider |-> config.ai_fallback[purpose][i].provider,
              model |-> config.ai_fallback[purpose][i].model]]

\* AIRouter(config) over one of the documents of C (lines 59-60)
InitRouter(C) ==
    /\ config \in C
    /\ constructed = validate_config(config)
    /\ resolved = NoCall
    /\ succeeded = {}

\* a caller resolves a purpose
GetProviderInfo(purpose, workspace_id, room_id) ==
    /\ constructed
    /\ LET res == get_provider_info(purpose, workspace_id, room_id) IN
       /\ resolved' = [call |-> "get_provider_info", purpose |-> purpose,
                       workspace_id |-> workspace_id, room_id |-> room_id,
                       outcome |-> res.outcome, provider |-> res.provider,
                       model |-> res.model, error_purpose |-> res.error_purpose,
                       candidates |-> <<>>]
       /\ succeeded' = IF res.outcome = "returned" THEN succeeded \cup {purpose}
                       ELSE succeeded
    /\ UNCHANGED <<config, constructed>>

\* a caller asks for the fallback candidates of a purpose
GetFallbackInfo(purpose) ==
    /\ constructed
    /\ resolved' = [call |-> "get_fallback_info", purpose |-> purpose,
                    workspace_id |-> "", room_id |-> "",
                    outcome |-> "returned", provider |-> "", model |-> "",
                    error_purpose |-> "", candidates |-> get_fallback_info(purpose)]
    /\ succeeded' = succeeded
    /\ UNCHANGED <<config, constructed>>

NextRouter ==
    \/ \E p \in Purposes, w \in {"", "workspace_a"}, r \in {"", "room_1"} :
           GetProviderInfo(p, w, r) /\ UNCHANGED exceptRouter
    \/ \E p \in Purposes : GetFallbackInfo(p) /\ UNCHANGED exceptRouter

\* the document the other components run with
DefaultConfig ==
    CHOOSE c \in Configs :
        /\ validate_config(c)
        /\ DOMAIN c.ai_routing = {} /\ DOMAIN c.ai_fallback = {}
        /\ DOMAIN c.room_overrides["room_1"] = {}
        /\ DOMAIN c.workspace_overrides["workspace_a"] = {}

\* -------------------------------------------------------------- trim_context

\* A text is modelled by its number of characters, the only thing
\* estimate_tokens reads of it.

\* the lengths of the contents of the messages explored
ContentLens == {0, 3, 20}

\* a message of the history: its role and its content
Messages == [role : {"system", "user"}, content : ContentLens]

RECURSIVE Histories(_)
\* the histories of at most n messages
Histories(n) ==
    IF n = 0 THEN {<<>>}
    ELSE Histories(n - 1)
         \cup {Append(h, m) : h \in {g \in Histories(n - 1) : Len(g) = n - 1}, m \in Messages}

\* estimate_tokens: math.ceil(len(text) / DEFAULT_CHARS_PER_TOKEN), 0 for ""
estimate_tokens(text) ==
    IF text = 0 THEN 0
    ELSE (text + DEFAULT_CHARS_PER_TOKEN - 1) \div DEFAULT_CHARS_PER_TOKEN

\* estimate_message_tokens
estimate_message_tokens(message) == estimate_tokens(message.content)

RECURSIVE sum(_)
\* sum(message_tokens)
sum(q) == IF q = <<>> THEN 0 ELSE Head(q) + sum(Tail(q))

RECURSIVE non_system_from(_, _)
\* line 67: [i for i, msg in enumerate(context) if msg.get("role") != "system"],
\* from index i on
non_system_from(i, hist) ==
    IF i > Len(hist) THEN <<>>
    ELSE IF hist[i].role # "system" THEN <<i>> \o non_system_from(i + 1, hist)
    ELSE non_system_from(i + 1, hist)

RECURSIVE kept_from(_, _, _)
\* line 77: [msg for i, msg in enumerate(context) if i in keep_indices], from
\* index i on
kept_from(i, hist, keep_indices) ==
    IF i > Len(hist) THEN <<>>
    ELSE IF i \in keep_indices THEN <<hist[i]>> \o kept_from(i + 1, hist, keep_indices)
    ELSE kept_from(i + 1, hist, keep_indices)

RECURSIVE drop_oldest_once(_, _, _, _)
\* the mutant of drop_oldest: at most one entry is dropped by a call
drop_oldest_once(total_tokens, non_system_indices, message_tokens, budget) ==
    IF total_tokens > budget /\ Len(non_system_indices) > 1
    THEN Tail(non_system_indices)
    ELSE non_system_indices

RECURSIVE drop_oldest(_, _, _, _)
\* the while loop of lines 69-71: the indices left in non_system_indices
drop_oldest(total_tokens, non_system_indices, message_tokens, budget) ==
    IF total_tokens > budget /\ Len(non_system_indices) > 1
    THEN drop_oldest(total_tokens - message_tokens[Head(non_system_indices)],
                     Tail(non_system_indices), message_tokens, budget)
    ELSE non_system_indices

\* trim_context (lines 57-77)
trim_context(hist, budget, prompt, system) ==
    IF budget <= 0 THEN <<>>
    ELSE
        LET prompt_tokens == estimate_tokens(prompt) + estimate_tokens(system)
            message_tokens == [i \in DOMAIN hist |-> estimate_message_tokens(hist[i])]
            total_tokens == prompt_tokens + sum(message_tokens)
            non_system_indices == non_system_from(1, hist)
            left == drop_oldest(total_tokens, non_system_indices, message_tokens, budget)
            keep_indices ==
                {i \in DOMAIN hist : hist[i].role = "system"} \cup {left[j] : j \in DOMAIN left}
        IN IF total_tokens <= budget THEN hist
           ELSE kept_from(1, hist, keep_indices)

\* the arguments of a first call: a history of H, a budget of B, a prompt and
\* a system prompt of the lengths P and S
InitTrim(H, B, P, S) ==
    /\ context \in H
    /\ token_budget \in B
    /\ prompt_text \in P
    /\ system_prompt \in S
    /\ trims = 0
    /\ original = context
    /\ previous = context

\* a caller trims the history it holds, with the same budget and prompts
TrimContext ==
    /\ trims < MaxTrims
    /\ context' = trim_context(context, token_budget, prompt_text, system_prompt)
    /\ previous' = context
    /\ trims' = trims + 1
    /\ UNCHANGED <<token_budget, prompt_text, system_prompt, original>>

NextTrim == TrimContext /\ UNCHANGED exceptTrim

\* ---------------------------------------------------------------- Summarizer

\* A message is modelled by its position in the caller's list (id, which
\* stands for its sender and content) and its timestamp, in days.  The
\* prompt is modelled by the messages it lists, in the order it lists them.

\* the instant datetime.now(UTC) returns, and the timestamps explored
Now == MaxDay

Timestamps == 1..(Now - 1)

\* the lists of n messages
RECURSIVE MessageLists(_)
MessageLists(n) ==
    IF n = 0 THEN {<<>>}
    ELSE {Append(l, [id |-> n, timestamp |-> t]) : l \in MessageLists(n - 1), t \in Timestamps}

\* the days argument: {} is None
DaysArgs == {{}, {1}, {2}}

\* Summarizer._filter_by_days (lines 122-124)
filter_by_days(msgs, d) ==
    LET cutoff == Now - d IN
    SelectSeq(msgs, LAMBDA msg : msg.timestamp >= cutoff)

\* sorted(messages, key=timestamp) (line 136): each message is put behind
\* the messages already placed whose timestamp is not greater
RECURSIVE sorted(_)
sorted(msgs) ==
    IF msgs = <<>> THEN <<>>
    ELSE LET m == msgs[Len(msgs)]
             rest == sorted(SubSeq(msgs, 1, Len(msgs) - 1))
         IN SelectSeq(rest, LAMBDA x : x.timestamp <= m.timestamp)
                \o <<m>>
                \o SelectSeq(rest, LAMBDA x : x.timestamp > m.timestamp)

\* Summarizer._build_prompt (lines 136-150): one line for each message
build_prompt(msgs) == sorted(msgs)

\* the cap of lines 94-95: messages[: MAX_MESSAGES]
cap(msgs) ==
    IF Len(msgs) > MAX_MESSAGES THEN SubSeq(msgs, 1, MAX_MESSAGES) ELSE msgs

\* Summarizer._PROVIDER_CLASSES (lines 167-172)
PROVIDER_CLASSES == {"openai", "anthropic", "google", "groq"}

\* what the vendor client's completion call does (openai.py:119-126)
VendorOutcomes ==
    {"content", "empty", "APIConnectionError", "RateLimitError", "AuthenticationError",
     "Exception"}

\* AIProvider.generate (openai.py:118-140, and the same shape in groq.py,
\* anthropic.py and google.py): the error it raises, "" when it returns
generate(vendor) ==
    CASE vendor = "content" -> ""
      [] vendor = "empty" -> "AIResponseError"
      [] vendor = "APIConnectionError" -> "AIConnectionError"
      [] vendor = "RateLimitError" -> "AIQuotaExceededError"
      [] vendor = "AuthenticationError" -> "AIProviderError"
      [] OTHER -> "AIProviderError"

\* the mutant of IsAIProviderError: the handler matches the base class only
IsAIProviderErrorExactly(e) == e = "AIProviderError"

\* isinstance(e, AIProviderError) (base.py:21-89), the handler of line 109
IsAIProviderError(e) ==
    e \in {"AIProviderError", "AIProviderNotConfiguredError", "AIQuotaExceededError",
           "AIConnectionError", "AIResponseError"}

NoResult == [kind |-> "none", value |-> "", days |-> {}, error |-> "", cause |-> ""]

ReturnValue(value, d) ==
    [kind |-> "returned", value |-> value, days |-> d, error |-> "", cause |-> ""]

RaiseError(error, cause) ==
    [kind |-> "raised", value |-> "", days |-> {}, error |-> error, cause |-> cause]

\* Summarizer._get_provider (lines 192-218): the provider it returns, or the
\* SummaryError it raises and the error that one was raised from.
\* constructs is whether lines 199-214 (the api_key lookup and the provider's
\* constructor) run without raising.
get_provider(workspace_id, room_id, constructs) ==
    LET provider_info == get_provider_info("summary", workspace_id, room_id) IN
    IF provider_info.outcome = "raised"
    THEN [ok |-> FALSE, raised |-> RaiseError("SummaryError", "AIProviderNotConfiguredError")]
    ELSE IF provider_info.provider \notin PROVIDER_CLASSES
    THEN [ok |-> FALSE, raised |-> RaiseError("SummaryError", "")]
    ELSE IF ~constructs
    THEN [ok |-> FALSE, raised |-> RaiseError("SummaryError", "Exception")]
    ELSE [ok |-> TRUE, raised |-> NoResult]

\* Summarizer(router), no call made yet
InitSummarizer(pcs) ==
    /\ summary_pc \in pcs
    /\ summary_call = [messages |-> <<>>, days |-> {}, workspace_id |-> "", room_id |-> ""]
    /\ summary_prompt = <<>>
    /\ summary_result = NoResult
    /\ router_calls = 0
    /\ provider_calls = 0
    /\ provider_raised = ""

\* the mutant of NothingLeft: the list is never found empty
NothingLeftNever(msgs) == FALSE

\* not messages (lines 84 and 90)
NothingLeft(msgs) == msgs = <<>>

\* the messages after lines 88-89
Windowed(msgs, d) ==
    IF d = {} THEN msgs ELSE filter_by_days(msgs, CHOOSE x \in d : TRUE)

\* summarize up to its await of provider.generate (lines 84-103), or to the
\* return or raise that comes before it
SummarizeCall(msgs, d, workspace_id, room_id, constructs) ==
    /\ summary_pc = "idle"
    /\ summary_call' = [messages |-> msgs, days |-> d, workspace_id |-> workspace_id,
                        room_id |-> room_id]
    /\ provider_raised' = ""
    /\ IF NothingLeft(msgs)
       THEN /\ summary_result' = ReturnValue("nothing_to_summarize", {})
            /\ summary_pc' = "done"
            /\ summary_prompt' = <<>>
            /\ router_calls' = 0
            /\ provider_calls' = 0
       ELSE IF NothingLeft(Windowed(msgs, d))
       THEN /\ summary_result' = ReturnValue("nothing_in_window", d)
            /\ summary_pc' = "done"
            /\ summary_prompt' = <<>>
            /\ router_calls' = 0
            /\ provider_calls' = 0
       ELSE LET provider == get_provider(workspace_id, room_id, constructs) IN
            /\ summary_prompt' = build_prompt(cap(Windowed(msgs, d)))
            /\ router_calls' = 1
            /\ IF provider.ok
               THEN /\ summary_pc' = "generate"
                    /\ summary_result' = NoResult
                    /\ provider_calls' = 1
               ELSE /\ summary_pc' = "done"
                    /\ summary_result' = provider.raised
                    /\ provider_calls' = 0

\* provider.generate ends (lines 103-110)
GenerateEnds(vendor) ==
    /\ summary_pc = "generate"
    /\ summary_pc' = "done"
    /\ provider_raised' = generate(vendor)
    /\ summary_result' =
           IF generate(vendor) = "" THEN ReturnValue("result", {})
           ELSE IF IsAIProviderError(generate(vendor))
           THEN RaiseError("SummaryError", generate(vendor))
           ELSE RaiseError(generate(vendor), "")
    /\ UNCHANGED <<summary_call, summary_prompt, router_calls, provider_calls>>

NextSummarizer ==
    \/ \E n \in 0..MaxMessages : \E msgs \in MessageLists(n) :
       \E d \in DaysArgs, w \in {"workspace_a"}, r \in {"", "room_1"}, c \in BOOLEAN :
           SummarizeCall(msgs, d, w, r, c) /\ UNCHANGED exceptSummary
    \/ \E v \in VendorOutcomes : GenerateEnds(v) /\ UNCHANGED exceptSummary

\* -------------------------------------------------------------- VoiceRecorder

Guilds == 1..NumGuilds

RecCallers == 1..NumRecCallers

SessionIds == 1..MaxSessions

\* no key for the guild in _active_recordings
NoRecording == [session_id |-> 0, notify_channel |-> FALSE]

NoRecCall ==
    [op |-> "none", guild |-> 0, notify_channel |-> FALSE, kind |-> "none", error |-> "",
     was_recording |-> FALSE]

\* VoiceRecorder(db, storage) (lines 65-67) over an empty voice_sessions table
InitRecorder(callers) ==
    /\ active_recordings = [g \in Guilds |-> NoRecording]
    /\ voice_sessions = [s \in SessionIds |-> "none"]
    /\ rec_pc = [c \in callers |-> "idle"]
    /\ rec_call = [c \in callers |-> NoRecCall]
    /\ rec_session = [c \in callers |-> 0]
    /\ session_guild = [s \in SessionIds |-> 0]
    /\ overlapped = [c \in callers |-> {}]
    /\ overwritten = FALSE

\* the mutant of is_recording: the guard never finds a recording
is_recording_never(guild_id) == FALSE

\* VoiceRecorder.is_recording (line 78)
is_recording(guild_id) == active_recordings[guild_id] # NoRecording

\* the id create_voice_session gives the row it inserts
NextSessionId ==
    CHOOSE s \in SessionIds :
        /\ voice_sessions[s] = "none"
        /\ \A x \in SessionIds : voice_sessions[x] = "none" => s <= x

\* the table can take one more row
TableHasRoom == \E s \in SessionIds : voice_sessions[s] = "none"

\* callers suspended in voice_channel.connect() for the guild
Connecting(guild_id) == {c \in RecCallers : rec_pc[c] = "connect" /\ rec_call[c].guild = guild_id}

\* a caller makes a new call: its last one is forgotten
Forget(c) == [d \in RecCallers |-> IF d = c THEN {} ELSE overlapped[d] \ {c}]

\* the call of a caller ends
Raise(c, error) ==
    /\ rec_pc' = [rec_pc EXCEPT ![c] = "idle"]
    /\ rec_session' = [rec_session EXCEPT ![c] = 0]
    /\ rec_call' = [rec_call EXCEPT ![c].kind = "raised", ![c].error = error]

Return(c) ==
    /\ rec_pc' = [rec_pc EXCEPT ![c] = "idle"]
    /\ rec_session' = [rec_session EXCEPT ![c] = 0]
    /\ rec_call' = [rec_call EXCEPT ![c].kind = "returned"]

\* start_recording up to its await of voice_channel.connect() (lines 112-120)
StartRecording(c, guild_id, notify_channel) ==
    /\ rec_pc[c] = "idle"
    /\ active_recordings[guild_id] # NoRecording \/ TableHasRoom
    /\ LET call == [op |-> "start", guild |-> guild_id, notify_channel |-> notify_channel,
                    kind |-> "running", error |-> "",
                    was_recording |-> active_recordings[guild_id] # NoRecording]
       IN IF is_recording(guild_id)
          THEN /\ rec_call' = [rec_call EXCEPT ![c] = [call EXCEPT !.kind = "raised",
                                                           !.error = "VoiceRecorderError"]]
               /\ overlapped' = Forget(c)
               /\ UNCHANGED rec_pc
          ELSE /\ rec_call' = [rec_call EXCEPT ![c] = call]
               /\ rec_pc' = [rec_pc EXCEPT ![c] = "connect"]
               /\ overlapped' = [d \in RecCallers |->
                                    IF d = c THEN Connecting(guild_id)
                                    ELSE IF d \in Connecting(guild_id)
                                    THEN overlapped[d] \cup {c}
                                    ELSE overlapped[d] \ {c}]
    /\ UNCHANGED <<active_recordings, voice_sessions, rec_session, session_guild, overwritten>>

\* connect() raises (lines 121-124): ClientException and TimeoutError
\* become VoiceRecorderError, any other error leaves as it is
ConnectRaises(c, error) ==
    /\ rec_pc[c] = "connect"
    /\ Raise(c, IF error \in {"ClientException", "TimeoutError"} THEN "VoiceRecorderError"
                ELSE error)
    /\ UNCHANGED <<active_recordings, voice_sessions, session_guild, overlapped, overwritten>>

\* connect() returns a voice client: the session row is created and the
\* recording is stored under the guild (lines 127-153)
ConnectReturns(c) ==
    /\ rec_pc[c] = "connect"
    /\ TableHasRoom
    /\ LET guild_id == rec_call[c].guild
           id == NextSessionId
       IN /\ voice_sessions' = [voice_sessions EXCEPT ![id] = "open"]
          /\ session_guild' = [session_guild EXCEPT ![id] = guild_id]
          /\ overwritten' = (overwritten \/ active_recordings[guild_id] # NoRecording)
          /\ active_recordings' =
                 [active_recordings EXCEPT
                     ![guild_id] = [session_id |-> id,
                                    notify_channel |-> rec_call[c].notify_channel]]
    /\ IF rec_call[c].notify_channel
       THEN /\ rec_pc' = [rec_pc EXCEPT ![c] = "start_notify"]
            /\ UNCHANGED <<rec_call, rec_session>>
       ELSE Return(c)
    /\ UNCHANGED overlapped

\* notify_channel.send of line 166 ends
StartNotifyEnds(c, ok) ==
    /\ rec_pc[c] = "start_notify"
    /\ IF ok THEN Return(c) ELSE Raise(c, "HTTPException")
    /\ UNCHANGED <<active_recordings, voice_sessions, session_guild, overlapped, overwritten>>

\* stop_recording up to its await of save_file (lines 182-209)
StopRecording(c, guild_id) ==
    /\ rec_pc[c] = "idle"
    /\ LET call == [op |-> "stop", guild |-> guild_id,
                    notify_channel |-> active_recordings[guild_id].notify_channel,
                    kind |-> "running", error |-> "",
                    was_recording |-> active_recordings[guild_id] # NoRecording]
       IN IF ~is_recording(guild_id)
          THEN /\ rec_call' = [rec_call EXCEPT ![c] = [call EXCEPT !.kind = "raised",
                                                           !.error = "VoiceRecorderError"]]
               /\ UNCHANGED <<rec_pc, rec_session>>
          ELSE /\ rec_call' = [rec_call EXCEPT ![c] = call]
               /\ rec_pc' = [rec_pc EXCEPT ![c] = "save_file"]
               /\ rec_session' = [rec_session EXCEPT
                                     ![c] = active_recordings[guild_id].session_id]
    /\ overlapped' = Forget(c)
    /\ UNCHANGED <<active_recordings, voice_sessions, session_guild, overwritten>>

\* save_file ends; update_voice_session_end (lines 209-224, database.py:644-651)
SaveFileEnds(c, ok) ==
    /\ rec_pc[c] = "save_file"
    /\ IF ~ok
       THEN Raise(c, "OSError") /\ UNCHANGED voice_sessions
       ELSE IF voice_sessions[rec_session[c]] \notin {"open", "ended"}
       THEN Raise(c, "ValueError") /\ UNCHANGED voice_sessions
       ELSE /\ voice_sessions' = [voice_sessions EXCEPT ![rec_session[c]] = "ended"]
            /\ rec_pc' = [rec_pc EXCEPT ![c] = "stop_disconnect"]
            /\ UNCHANGED <<rec_call, rec_session>>
    /\ UNCHANGED <<active_recordings, session_guild, overlapped, overwritten>>

\* voice_client.disconnect() of stop_recording ends; the key is deleted
\* (lines 224-230)
StopDisconnectEnds(c, ok) ==
    /\ rec_pc[c] = "stop_disconnect"
    /\ LET guild_id == rec_call[c].guild IN
       IF ~ok
       THEN Raise(c, "HTTPException") /\ UNCHANGED active_recordings
       ELSE IF active_recordings[guild_id] = NoRecording
       THEN Raise(c, "KeyError") /\ UNCHANGED active_recordings
       ELSE /\ active_recordings' = [active_recordings EXCEPT ![guild_id] = NoRecording]
            /\ IF rec_call[c].notify_channel
               THEN /\ rec_pc' = [rec_pc EXCEPT ![c] = "stop_notify"]
                    /\ UNCHANGED <<rec_call, rec_session>>
               ELSE Return(c)
    /\ UNCHANGED <<voice_sessions, session_guild, overlapped, overwritten>>

\* notify_channel.send of line 249 ends
StopNotifyEnds(c, ok) ==
    /\ rec_pc[c] = "stop_notify"
    /\ IF ok THEN Return(c) ELSE Raise(c, "HTTPException")
    /\ UNCHANGED <<active_recordings, voice_sessions, session_guild, overlapped, overwritten>>

\* cancel_recording up to its await of disconnect() (lines 262-273,
\* database.py:684-689)
CancelRecording(c, guild_id) ==
    /\ rec_pc[c] = "idle"
    /\ LET call == [op |-> "cancel", guild |-> guild_id, notify_channel |-> FALSE,
                    kind |-> "running", error |-> "",
                    was_recording |-> active_recordings[guild_id] # NoRecording]
           id == active_recordings[guild_id].session_id
       IN IF ~is_recording(guild_id)
          THEN /\ rec_call' = [rec_call EXCEPT ![c] = [call EXCEPT !.kind = "raised",
                                                           !.error = "VoiceRecorderError"]]
               /\ UNCHANGED <<rec_pc, rec_session, voice_sessions>>
          ELSE /\ rec_call' = [rec_call EXCEPT ![c] = call]
               /\ rec_pc' = [rec_pc EXCEPT ![c] = "cancel_disconnect"]
               /\ rec_session' = [rec_session EXCEPT ![c] = id]
               /\ voice_sessions' =
                      IF voice_sessions[id] \in {"open", "ended"}
                      THEN [voice_sessions EXCEPT ![id] = "deleted"]
                      ELSE voice_sessions
    /\ overlapped' = Forget(c)
    /\ UNCHANGED <<active_recordings, session_guild, overwritten>>

\* voice_client.disconnect() of cancel_recording ends; the key is deleted
\* (lines 273-276)
CancelDisconnectEnds(c, ok) ==
    /\ rec_pc[c] = "cancel_disconnect"
    /\ LET guild_id == rec_call[c].guild IN
       IF ~ok
       THEN Raise(c, "HTTPException") /\ UNCHANGED active_recordings
       ELSE IF active_recordings[guild_id] = NoRecording
       THEN Raise(c, "KeyError") /\ UNCHANGED active_recordings
       ELSE /\ active_recordings' = [active_recordings EXCEPT ![guild_id] = NoRecording]
            /\ Return(c)
    /\ UNCHANGED <<voice_sessions, session_guild, overlapped, overwritten>>

\* no call on the recorder is in progress
NoCallRunning == \A c \in RecCallers : rec_pc[c] = "idle"

\* calls made from concurrently running command handlers
NextRecorder ==
    \/ \E c \in RecCallers, g \in Guilds, n \in BOOLEAN :
           StartRecording(c, g, n) /\ UNCHANGED exceptRecorder
    \/ \E c \in RecCallers, g \in Guilds : StopRecording(c, g) /\ UNCHANGED exceptRecorder
    \/ \E c \in RecCallers, g \in Guilds : CancelRecording(c, g) /\ UNCHANGED exceptRecorder
    \/ \E c \in RecCallers, e \in {"ClientException", "TimeoutError", "Exception"} :
           ConnectRaises(c, e) /\ UNCHANGED exceptRecorder
    \/ \E c \in RecCallers : ConnectReturns(c) /\ UNCHANGED exceptRecorder
    \/ \E c \in RecCallers, ok \in BOOLEAN : StartNotifyEnds(c, ok) /\ UNCHANGED exceptRecorder
    \/ \E c \in RecCallers, ok \in BOOLEAN : SaveFileEnds(c, ok) /\ UNCHANGED exceptRecorder
    \/ \E c \in RecCallers, ok \in BOOLEAN :
           StopDisconnectEnds(c, ok) /\ UNCHANGED exceptRecorder
    \/ \E c \in RecCallers, ok \in BOOLEAN : StopNotifyEnds(c, ok) /\ UNCHANGED exceptRecorder
    \/ \E c \in RecCallers, ok \in BOOLEAN :
           CancelDisconnectEnds(c, ok) /\ UNCHANGED exceptRecorder

\* calls made one after the other: each is awaited before the next is made
NextRecorderSerial ==
    \/ \E c \in RecCallers, g \in Guilds, n \in BOOLEAN :
           NoCallRunning /\ StartRecording(c, g, n) /\ UNCHANGED exceptRecorder
    \/ \E c \in RecCallers, g \in Guilds :
           NoCallRunning /\ StopRecording(c, g) /\ UNCHANGED exceptRecorder
    \/ \E c \in RecCallers, g \in Guilds :
           NoCallRunning /\ CancelRecording(c, g) /\ UNCHANGED exceptRecorder
    \/ \E c \in RecCallers, e \in {"ClientException", "TimeoutError", "Exception"} :
           ConnectRaises(c, e) /\ UNCHANGED exceptRecorder
    \/ \E c \in RecCallers : ConnectReturns(c) /\ UNCHANGED exceptRecorder
    \/ \E c \in RecCallers, ok \in BOOLEAN : StartNotifyEnds(c, ok) /\ UNCHANGED exceptRecorder
    \/ \E c \in RecCallers, ok \in BOOLEAN : SaveFileEnds(c, ok) /\ UNCHANGED exceptRecorder
    \/ \E c \in RecCallers, ok \in BOOLEAN :
           StopDisconnectEnds(c, ok) /\ UNCHANGED exceptRecorder
    \/ \E c \in RecCallers, ok \in BOOLEAN : StopNotifyEnds(c, ok) /\ UNCHANGED exceptRecorder
    \/ \E c \in RecCallers, ok \in BOOLEAN :
           CancelDisconnectEnds(c, ok) /\ UNCHANGED exceptRecorder

\* ---------------------------------------------------------- specifications

\* the fan-out alone: no reminder is due
InitFanout ==
    /\ InitNotifier(BOOLEAN)
    /\ InitReminder({1}, {"pending"}, {FALSE}, {FALSE})
    /\ InitCycle({0})
    /\ InitRouter({DefaultConfig})
    /\ InitTrim({<<>>}, {1}, {0}, {0})
    /\ InitSummarizer({"idle"})
    /\ InitRecorder(RecCallers)

\* the fan-out of a notifier built with a router, as main.py builds it when
\* the router configuration loads
InitFanoutRouter ==
    /\ InitNotifier({TRUE})
    /\ InitReminder({1}, {"pending"}, {FALSE}, {FALSE})
    /\ InitCycle({0})
    /\ InitRouter({DefaultConfig})
    /\ InitTrim({<<>>}, {1}, {0}, {0})
    /\ InitSummarizer({"idle"})
    /\ InitRecorder(RecCallers)

\* the sweep alone: no notify_new_message runs
InitSweep ==
    /\ InitNotifier({TRUE})
    /\ InitReminder(Workspaces, {"pending", "done", "cancelled"}, BOOLEAN, BOOLEAN)
    /\ InitCycle({0})
    /\ InitRouter({DefaultConfig})
    /\ InitTrim({<<>>}, {1}, {0}, {0})
    /\ InitSummarizer({"idle"})
    /\ InitRecorder(RecCallers)

\* the background cycle over a table of due reminders of tenant 1
InitBackground ==
    /\ InitNotifier({TRUE})
    /\ InitReminder({1}, {"pending"}, {TRUE}, {FALSE})
    /\ InitCycle({0})
    /\ InitRouter({DefaultConfig})
    /\ InitTrim({<<>>}, {1}, {0}, {0})
    /\ InitSummarizer({"idle"})
    /\ InitRecorder(RecCallers)

\* concurrent notify_new_message invocations on one AggregationNotifier
SpecNotifier == InitFanout /\ [][NextNotifier]_vars

\* the same invocations under cancellation
SpecNotifierCancel == InitFanoutRouter /\ [][NextNotifierCancel]_vars

\* the same under the event loop's scheduling: a coroutine that can run is
\* run, a send that does not hang returns, and time passes
SpecNotifierFair ==
    /\ InitFanoutRouter
    /\ [][NextNotifier]_vars
    /\ \A t \in Tasks : WF_vars(TaskStep(t) /\ UNCHANGED exceptNotifier)
    /\ WF_vars(Tick /\ UNCHANGED exceptNotifier)

\* successive check_and_notify calls on one ReminderNotifier
SpecReminder == InitSweep /\ [][NextReminderNotifier]_vars

\* start(), stop() and the background tasks of one ReminderNotifier
SpecCycle == InitBackground /\ [][NextCycle]_vars

\* the background loop with one caller of stop(): stop() calls do not overlap
FirstCaller == CHOOSE c \in Callers : \A d \in Callers : c <= d

NextLoop ==
    \/ Start
    \/ Stop(FirstCaller)
    \/ StopResume(FirstCaller)
    \/ \E k \in BgTasks : LoopSweep(k)
    \/ \E k \in BgTasks : LoopSweepRaises(k)
    \/ \E k \in BgTasks : LoopStep(k, ReminderStep)
    \/ \E k \in BgTasks : LoopStep(k, ReminderGetChannel)
    \/ \E k \in BgTasks : LoopStep(k, ReminderFetchReturn)
    \/ \E k \in BgTasks : LoopStep(k, ReminderSendOk)
    \/ \E k \in BgTasks : LoopStep(k, ReminderSendRaises)
    \/ \E k \in BgTasks : LoopCancelled(k)

\* the loop under the event loop's scheduling: asyncio.sleep returns after
\* the interval, a lookup or a send ends, and a coroutine that can run is run
SpecLoopFair ==
    /\ InitBackground
    /\ [][NextLoop]_vars
    /\ \A k \in BgTasks : WF_vars(LoopRun(k))

\* a router built from any of the documents, and the calls on it
InitResolve ==
    /\ InitNotifier({TRUE})
    /\ InitReminder({1}, {"pending"}, {FALSE}, {FALSE})
    /\ InitCycle({0})
    /\ InitRouter(Configs)
    /\ InitTrim({<<>>}, {1}, {0}, {0})
    /\ InitSummarizer({"idle"})
    /\ InitRecorder(RecCallers)

SpecRouter == InitResolve /\ [][NextRouter]_vars

\* trim_context applied, and applied again, to any of the histories
InitBudget ==
    /\ InitNotifier({TRUE})
    /\ InitReminder({1}, {"pending"}, {FALSE}, {FALSE})
    /\ InitCycle({0})
    /\ InitRouter({DefaultConfig})
    /\ InitTrim(Histories(MaxLen), -1..MaxBudget, {0, 4}, {0, 3})
    /\ InitSummarizer({"idle"})
    /\ InitRecorder(RecCallers)

SpecTrim == InitBudget /\ [][NextTrim]_vars

\* the routing documents the summaries run with: well-formed, without
\* fallbacks, and with entries for the purpose "summary" only
SummaryConfigs ==
    {c \in Configs :
        /\ validate_config(c)
        /\ DOMAIN c.ai_fallback = {}
        /\ "rag_answer" \notin DOMAIN c.ai_routing
        /\ DOMAIN c.workspace_overrides["workspace_a"] = {}}

\* summarize calls on a Summarizer built over a router of any such document
InitSummary ==
    /\ InitNotifier({TRUE})
    /\ InitReminder({1}, {"pending"}, {FALSE}, {FALSE})
    /\ InitCycle({0})
    /\ InitRouter(SummaryConfigs)
    /\ InitTrim({<<>>}, {1}, {0}, {0})
    /\ InitSummarizer({"idle"})
    /\ InitRecorder(RecCallers)

SpecSummary == InitSummary /\ [][NextSummarizer]_vars

\* the recorder over an empty table; the other components are at rest
InitRecording ==
    /\ InitNotifier({TRUE})
    /\ InitReminder({1}, {"pending"}, {FALSE}, {FALSE})
    /\ InitCycle({0})
    /\ InitRouter({DefaultConfig})
    /\ InitTrim({<<>>}, {1}, {0}, {0})
    /\ InitSummarizer({"idle"})
    /\ InitRecorder(RecCallers)

\* start_recording, stop_recording and cancel_recording called in sequence
SpecRecorderSerial == InitRecording /\ [][NextRecorderSerial]_vars

\* the same calls made by concurrently running command handlers
SpecRecorder == InitRecording /\ [][NextRecorder]_vars

\* -------------------------------------------------------------- properties

Range(q) == {q[i] : i \in DOMAIN q}

\* C1: at every moment the number of deliveries between acquiring and
\* releasing a slot is at most MAX_CONCURRENT_REQUESTS, over all concurrent
\* invocations; the slot counter never goes below zero, and a delivery that
\* waits for a slot is not in the gate
GateBound ==
    /\ Cardinality(InGate) <= MAX_CONCURRENT_REQUESTS
    /\ semaphore_value >= 0
    /\ \A t \in Tasks : pc[t] = "wait_sem" => t \notin InGate /\ t \in Range(waiters)

\* the gate is full, a delivery is suspended in front of it
GateFullWitness ==
    /\ Cardinality(InGate) = MAX_CONCURRENT_REQUESTS
    /\ \E t \in Tasks : pc[t] = "wait_sem" /\ t \notin granted

\* C2: a delivery that starts after the last successful send to its
\* destination sleeps for exactly cooldown - elapsed (so only when the
\* destination has a recorded send less than a cooldown old), and issues its
\* send no sooner than a cooldown after that send
CooldownRespected ==
    \A t \in Tasks :
        ~stale[t] =>
            /\ pc[t] = "sleep" =>
                   /\ Dest(t) \in DOMAIN true_last_ok
                   /\ sleep_left[t] + true_last_ok[Dest(t)] = Cooldown
            /\ (pc[t] \in {"lookup", "fetching", "sending", "hung"}
                    /\ Dest(t) \in DOMAIN true_last_ok) =>
                   true_last_ok[Dest(t)] >= Cooldown

\* a second send to a destination is in flight, issued after the wait
SecondSendWitness ==
    \E t \in Tasks :
        /\ pc[t] = "sending"
        /\ ~stale[t]
        /\ Dest(t) \in DOMAIN true_last_ok
        /\ \E u \in Tasks : u # t /\ pc[u] = "done" /\ Dest(t) \in Range(sent_ok[u])

\* C3: a failed delivery does not make notify_new_message raise and does not
\* stop the loop: an invocation that returns has attempted every destination,
\* and its result lists exactly the destinations whose send succeeded
FailureIsolated ==
    \A t \in Tasks :
        /\ notified_rooms[t] = sent_ok[t]
        /\ Range(failed[t]) \cap Range(notified_rooms[t]) = {}
        /\ failed[t] # <<>> => pc[t] # "raised"
        /\ pc[t] = "done" =>
               Range(sent_ok[t]) \cup Range(failed[t])
                   = {r \in Range(get_target_rooms(room[t])) : room_type(r) = "aggregation"}

\* the first destination failed, the second one was delivered and returned
FailureIsolatedWitness ==
    \E t \in Tasks : pc[t] = "done" /\ failed[t] = <<4>> /\ notified_rooms[t] = <<5>>

NoAggregationLink(r) ==
    \A i \in DOMAIN get_target_rooms(r) : room_type(get_target_rooms(r)[i]) # "aggregation"

\* C4: an invocation on a room with no link to an aggregation room returns
\* the empty list and has issued no search, no slot acquisition, no channel
\* lookup and no send
NoLinkNoCalls ==
    \A t \in Tasks :
        (pc[t] # "idle" /\ NoAggregationLink(room[t])) =>
            /\ pc[t] = "done"
            /\ notified_rooms[t] = <<>>
            /\ ~called[t]
            /\ sent_ok[t] = <<>>
            /\ failed[t] = <<>>
            /\ t \notin Range(waiters)

\* an invocation on a room linked only to a non-aggregation room has returned
NoLinkWitness ==
    \E t \in Tasks : pc[t] = "done" /\ room[t] = 2 /\ notified_rooms[t] = <<>>

\* C5: a failure of the similarity search does not make notify_new_message
\* raise (the deliveries go on without similarity hits)
SimilarityFailureDoesNotRaise ==
    \A t \in Tasks : pc[t] # "raised"

\* C6: the recorded last-sent instant of a destination is that of its last
\* send that returned normally: it is written on no other path, and a failed
\* delivery leaves it as it was
LastSentIsLastSuccess ==
    channel_last_sent = true_last_ok

\* a delivery has failed on a destination that still has no recorded send
FailedNotRecordedWitness ==
    \E t \in Tasks :
        /\ failed[t] # <<>>
        /\ failed[t][1] \notin DOMAIN channel_last_sent
        /\ pc[t] = "done"

Attempted(k) == Range(sweep_log[k].pending) \ sweep_log[k].skipped

ReminderFailureKeepsPending ==
    \A k \in 1..Len(sweep_log) :
        /\ sweep_log[k].failed # {} => ~sweep_log[k].raised
        /\ sweep_log[k].ret = Cardinality(sweep_log[k].counted)
        /\ \A r \in sweep_log[k].failed :
               /\ r \notin sweep_log[k].counted
               /\ (k < Len(sweep_log) /\ ~sweep_log[k + 1].raised) =>
                      r \in Range(sweep_log[k + 1].pending)
               /\ (k = Len(sweep_log) /\ sweep_pc = "idle") =>
                      ~reminder_notified[r] /\ r \in Range(get_pending_reminders)

\* the only pending reminder failed in the first sweep, which returned 0, and
\* was fetched again by the second
RetryWitness ==
    /\ Len(sweep_log) = 2
    /\ sweep_log[1].ret = 0
    /\ \E r \in sweep_log[1].failed : r \in Range(sweep_log[2].pending)

Returned(t) == pc[t] \in {"done", "raised"}

\* C7 as stated: with one delivery hanging in the gate, every other delivery
\* still completes, those to the remaining destinations of the hanging
\* invocation included: an invocation that has started returns, or hangs on
\* its last destination
OtherDestinationsComplete ==
    \A t \in Tasks :
        (pc[t] # "idle") ~>
            (Returned(t) \/ (pc[t] = "hung" /\ idx[t] = Len(AggregationRooms(room[t]))))

\* C7, amended: while a delivery hangs in the gate, every other invocation
\* that has started gets its slots and returns, and the gate never holds more
\* than MAX_CONCURRENT_REQUESTS deliveries
HangDoesNotBlockOthers ==
    /\ [](Cardinality(InGate) <= MAX_CONCURRENT_REQUESTS)
    /\ \A u \in Tasks :
           (pc[u] \notin {"idle", "hung"} /\ \E t \in Tasks : pc[t] = "hung") ~> Returned(u)

\* a delivery hangs, and another invocation took a slot after that and
\* returned with a destination notified
HangWitness ==
    \E t, u \in Tasks :
        /\ pc[t] = "hung"
        /\ pc[u] = "done"
        /\ past_hang[u]
        /\ sent_ok[u] # <<>>
        /\ \E v \in Tasks : v \notin {t, u} /\ pc[v] = "done" /\ past_hang[v]

\* C11: a delivery of a reminder that fails on one aggregation room of the
\* tenant does not end the room loop: the notice is next attempted on the
\* tenant's following aggregation room
ReminderDestinationsIsolated ==
    [][(/\ sweep_pc \in {"room", "fetching", "sending"}
        /\ CurReminder \notin cur_failed
        /\ CurReminder \in cur_failed'
        /\ rj < Len(CurRooms))
       => (sweep_pc' = "room" /\ ri' = ri /\ rj' = rj + 1)]_vars

\* what the sweep does with the reminder at the head of its loop when the
\* tenant has no aggregation room: nothing but going on to the next reminder
SkipStep ==
    /\ sweep_pc' \in {"reminder", "idle"}
    /\ cur_skipped' = cur_skipped \cup {CurReminder}
    /\ UNCHANGED <<reminder_notified, reminder_status, updates, delivered, notified_count,
                   cur_counted, cur_failed>>

\* C12: a due reminder whose tenant has no aggregation room is skipped with
\* no channel lookup, no send, no write of its flag and no count (and only
\* such a reminder is skipped); the next sweep fetches it again, and notifies
\* it when its tenant has an aggregation room by then and the delivery succeeds
NoRoomSkipped ==
    /\ [][(sweep_pc = "reminder" /\ room_added' = room_added) =>
              IF CurRooms = <<>>
              THEN SkipStep
              ELSE sweep_pc' = "room" /\ cur_skipped' = cur_skipped]_vars
    /\ [](/\ sweep_pc \in {"room", "fetching", "sending"} => CurRooms # <<>>
          /\ \A r \in cur_skipped :
                 /\ r \notin cur_failed \cup cur_counted
                 /\ ~reminder_notified[r]
                 /\ updates[r] = 0
                 /\ \A d \in Rooms : <<r, d>> \notin delivered
          /\ \A k \in 1..Len(sweep_log) : \A r \in sweep_log[k].skipped :
                 /\ r \notin sweep_log[k].counted \cup sweep_log[k].failed
                 /\ (k < Len(sweep_log) /\ ~sweep_log[k + 1].raised) =>
                        /\ r \in Range(sweep_log[k + 1].pending)
                        /\ r \notin sweep_log[k + 1].skipped \cup sweep_log[k + 1].failed =>
                               /\ r \in sweep_log[k + 1].counted
                               /\ reminder_notified[r]
                               /\ updates[r] = 1)

\* a reminder skipped by the first sweep was delivered to the room created
\* since and flagged by the second
SkippedThenNotifiedWitness ==
    /\ Len(sweep_log) = 2
    /\ room_added
    /\ \E r \in sweep_log[1].skipped \cap sweep_log[2].counted :
           /\ sweep_log[1].ret = 0
           /\ reminder_notified[r]
           /\ <<r, 6>> \in delivered

\* C13: stop() raises no error, whether no task was ever started or the task
\* it cancels is sleeping, not yet run, or inside a sweep; and once a stop()
\* has returned, with no start() since the stop() began, no task is
\* registered, no task is left unfinished and no sweep is in flight, so that
\* no further sweep starts
CleanlyCancellable ==
    /\ \A c \in Callers : stop_pc[c] # "raised"
    /\ \A k \in BgTasks : bg_pc[k] # "failed"
    /\ (stopped /\ ~raced) =>
           /\ task = 0
           /\ \A k \in BgTasks : ~Alive(k)
           /\ must_cancel = {}
           /\ sweep_pc = "idle"

\* one stop() returned after cancelling a task inside a sweep, another after
\* cancelling a task in its sleep, and a stop() with no task registered
\* returned as well
CancelledWitness ==
    /\ stopped /\ ~raced
    /\ \E k \in BgTasks : cancelled_at[k] \in {"fetching", "sending"}
    /\ \E k \in BgTasks : cancelled_at[k] = "sleep"
    /\ \A c \in Callers : stop_pc[c] = "returned"

\* the entry of the room-level table for (room, purpose) exists
HasRoomEntry(p, r) ==
    r # "" /\ r \in DOMAIN config.room_overrides /\ p \in DOMAIN config.room_overrides[r]

\* the entry of the tenant-level table for (tenant, purpose) exists
HasTenantEntry(p, w) ==
    /\ w # ""
    /\ w \in DOMAIN config.workspace_overrides
    /\ p \in DOMAIN config.workspace_overrides[w]

HasAnyEntry(p, w, r) ==
    HasRoomEntry(p, r) \/ HasTenantEntry(p, w) \/ p \in DOMAIN config.ai_routing

\* the entry of the highest level that has one: room, then tenant, then global
HighestEntry(p, w, r) ==
    IF HasRoomEntry(p, r) THEN config.room_overrides[r][p]
    ELSE IF HasTenantEntry(p, w) THEN config.workspace_overrides[w][p]
    ELSE config.ai_routing[p]

\* the entry has a provider and a model, and the provider is in ai_providers
Configured(e) ==
    e.provider # "" /\ e.model # "" /\ e.provider \in config.ai_providers

\* C14 as stated: get_provider_info returns the entry of the highest level
\* that has one for the purpose, and raises when no level has one
ReturnsHighestEntry ==
    resolved.call = "get_provider_info" =>
        IF HasAnyEntry(resolved.purpose, resolved.workspace_id, resolved.room_id)
        THEN /\ resolved.outcome = "returned"
             /\ [provider |-> resolved.provider, model |-> resolved.model]
                    = HighestEntry(resolved.purpose, resolved.workspace_id, resolved.room_id)
        ELSE /\ resolved.outcome = "raised"
             /\ resolved.error_purpose = resolved.purpose

\* C14, amended: the outcome of get_provider_info is decided by the entry of
\* the highest level that has one for the purpose (room, then tenant, then
\* global): that entry is returned when it is configured, and
\* ProviderNotConfigured is raised otherwise, with no fall through to a lower
\* level; ProviderNotConfigured(purpose) is raised when no level has an entry
HierarchyPrecedence ==
    resolved.call = "get_provider_info" =>
        IF HasAnyEntry(resolved.purpose, resolved.workspace_id, resolved.room_id)
        THEN LET e == HighestEntry(resolved.purpose, resolved.workspace_id, resolved.room_id)
             IN IF Configured(e)
                THEN /\ resolved.outcome = "returned"
                     /\ [provider |-> resolved.provider, model |-> resolved.model] = e
                ELSE /\ resolved.outcome = "raised"
                     /\ resolved.error_purpose = resolved.purpose
        ELSE /\ resolved.outcome = "raised"
             /\ resolved.error_purpose = resolved.purpose
             /\ resolved.provider = ""

\* the three levels have different entries for the purpose, the tenant-level
\* one is configured too, and the room-level one was returned
PrecedenceWitness ==
    /\ resolved.call = "get_provider_info"
    /\ resolved.purpose = "summary"
    /\ resolved.room_id = "room_1" /\ resolved.workspace_id = "workspace_a"
    /\ HasRoomEntry("summary", "room_1")
    /\ HasTenantEntry("summary", "workspace_a")
    /\ "summary" \in DOMAIN config.ai_routing
    /\ config.room_overrides["room_1"]["summary"].model = "gpt-4o"
    /\ config.workspace_overrides["workspace_a"]["summary"].model = "gpt-4o-mini"
    /\ config.ai_routing["summary"].provider = "groq"
    /\ resolved.outcome = "returned"
    /\ resolved.model = "gpt-4o"

\* the deciding entry of the last call names a provider that ai_providers
\* does not have
NamesAbsentProvider ==
    /\ resolved.call = "get_provider_info"
    /\ HasAnyEntry(resolved.purpose, resolved.workspace_id, resolved.room_id)
    /\ LET e == HighestEntry(resolved.purpose, resolved.workspace_id, resolved.room_id)
       IN e.provider # "" /\ e.provider \notin config.ai_providers

\* a router is built from every document that has the two required tables,
\* whatever its entries name, and a call decided by a configured entry returns
LazyConstruction ==
    /\ constructed <=> {"ai_providers", "ai_routing"} \subseteq config.keys
    /\ (/\ resolved.call = "get_provider_info"
        /\ HasAnyEntry(resolved.purpose, resolved.workspace_id, resolved.room_id)
        /\ Configured(HighestEntry(resolved.purpose, resolved.workspace_id,
                                   resolved.room_id)))
           => resolved.outcome = "returned"

\* C15 as stated: provider presence is checked when a purpose is resolved,
\* not when the router is built; resolving an entry that names an absent
\* provider raises ProviderNotConfigured with the purpose and the provider
\* name
LazyValidation ==
    /\ LazyConstruction
    /\ NamesAbsentProvider =>
           /\ resolved.outcome = "raised"
           /\ resolved.error_purpose = resolved.purpose
           /\ resolved.provider =
                  HighestEntry(resolved.purpose, resolved.workspace_id,
                               resolved.room_id).provider

\* C15, amended: the same, though the exception carries the provider name
\* only when the entry has a model: an entry without a model raises
\* ProviderNotConfigured with the purpose alone, whatever provider it names
LazyValidationWithModel ==
    /\ LazyConstruction
    /\ NamesAbsentProvider =>
           LET e == HighestEntry(resolved.purpose, resolved.workspace_id, resolved.room_id)
           IN /\ resolved.outcome = "raised"
              /\ resolved.error_purpose = resolved.purpose
              /\ resolved.provider = IF e.model # "" THEN e.provider ELSE ""

\* a router built from a document whose global entry for one purpose names an
\* absent provider has resolved the other purpose, and raised for this one
\* with the provider name
LazyWitness ==
    /\ constructed
    /\ NamesAbsentProvider
    /\ resolved.purpose = "summary"
    /\ resolved.provider = "groq"
    /\ resolved.outcome = "raised"
    /\ "rag_answer" \in succeeded

\* C16: every candidate the router returns, from get_provider_info or from
\* get_fallback_info, names a provider of the ai_providers table
CandidatesConfigured ==
    /\ (resolved.call = "get_provider_info" /\ resolved.outcome = "returned") =>
           resolved.provider \in config.ai_providers
    /\ resolved.call = "get_fallback_info" =>
           \A i \in DOMAIN resolved.candidates :
               resolved.candidates[i].provider \in config.ai_providers

\* C17: a second trim_context with the same budget and prompts returns what
\* the first returned, for every history and every budget, zero and negative
\* budgets included
TrimIdempotent ==
    trims >= 2 => context = previous

\* a history was cut by its first trim down to its pinned entries and its
\* latest entry, is still over budget, and the second trim left it as it was
TrimTwiceWitness ==
    /\ trims = 2
    /\ token_budget > 0
    /\ context = previous
    /\ Len(context) < Len(original)
    /\ \E i \in DOMAIN context : context[i].role = "system"
    /\ estimate_tokens(prompt_text) + estimate_tokens(system_prompt)
           + sum([i \in DOMAIN context |-> estimate_message_tokens(context[i])])
       > token_budget

RECURSIVE IsSubsequence(_, _)
\* a is b with some entries removed, the others in their order
IsSubsequence(a, b) ==
    IF a = <<>> THEN TRUE
    ELSE IF b = <<>> THEN FALSE
    ELSE IF Head(a) = Head(b) THEN IsSubsequence(Tail(a), Tail(b))
    ELSE IsSubsequence(a, Tail(b))

\* the pinned entries of a history, in their order
Pinned(h) == SelectSeq(h, LAMBDA m : m.role = "system")

\* the other entries of a history, in their order
NonPinned(h) == SelectSeq(h, LAMBDA m : m.role # "system")

\* the estimated tokens of a history
HistoryTokens(h) == sum([i \in DOMAIN h |-> estimate_message_tokens(h[i])])

\* C18: for every history and every budget, the result of trim_context is a
\* subsequence of its input, in the input's order, that holds every pinned
\* entry of the input, and its estimated tokens do not exceed the input's
TrimMonotone ==
    trims >= 1 =>
        /\ IsSubsequence(context, previous)
        /\ Pinned(context) = Pinned(previous)
        /\ HistoryTokens(context) <= HistoryTokens(previous)

\* C19: for every budget, the result of trim_context on a history with a
\* non-pinned entry still holds the latest non-pinned entry of the history
KeepsLatestEntry ==
    (trims >= 1 /\ NonPinned(previous) # <<>>) =>
        /\ NonPinned(context) # <<>>
        /\ NonPinned(context)[Len(NonPinned(context))]
               = NonPinned(previous)[Len(NonPinned(previous))]
        /\ IsSubsequence(NonPinned(context), NonPinned(previous))

RECURSIVE RemoveFirstNonPinned(_)
\* the history without its oldest non-pinned entry
RemoveFirstNonPinned(h) ==
    IF h = <<>> THEN <<>>
    ELSE IF Head(h).role # "system" THEN Tail(h)
    ELSE <<Head(h)>> \o RemoveFirstNonPinned(Tail(h))

RECURSIVE ReferenceTrim(_, _, _)
\* the reference algorithm: while the total is over the budget and more than
\* one non-pinned entry is left, remove the oldest non-pinned entry and
\* subtract its estimate
ReferenceTrim(h, total, budget) ==
    IF total <= budget \/ Len(NonPinned(h)) <= 1 THEN h
    ELSE ReferenceTrim(RemoveFirstNonPinned(h),
                       total - estimate_message_tokens(NonPinned(h)[1]), budget)

\* C20: for every history and budget, trim_context returns what the
\* reference algorithm returns, with total = estimate(prompt) +
\* estimate(system) + the estimates of the entries
MatchesReference ==
    trims >= 1 =>
        context = ReferenceTrim(previous,
                                estimate_tokens(prompt_text) + estimate_tokens(system_prompt)
                                    + HistoryTokens(previous),
                                token_budget)

\* C21: every error the provider raises while summarize generates the
\* summary (quota exceeded, connection error, response error, any other
\* provider error) reaches the caller as SummaryError raised from it, and no
\* call of summarize ends with an error of another type
ProviderErrorsWrapped ==
    /\ provider_raised # "" =>
           /\ summary_pc = "done"
           /\ summary_result = RaiseError("SummaryError", provider_raised)
    /\ summary_result.kind = "raised" => summary_result.error = "SummaryError"

\* the vendor's rate limit was hit and the caller got a SummaryError
ProviderErrorWitness ==
    /\ provider_calls = 1
    /\ provider_raised = "AIQuotaExceededError"
    /\ summary_result.error = "SummaryError"

\* the resolution of the purpose "summary" for the call's tenant and room fails
ResolutionFails ==
    get_provider_info("summary", summary_call.workspace_id, summary_call.room_id).outcome
        = "raised"

\* C22: when the resolution of the provider for "summary" fails with
\* ProviderNotConfigured, summarize fails with that very error, not wrapped
\* in or replaced by another type
NotConfiguredSurfacedUntouched ==
    (summary_pc = "done" /\ router_calls = 1 /\ ResolutionFails) =>
        /\ summary_result.kind = "raised"
        /\ summary_result.error = "AIProviderNotConfiguredError"

\* no message of the call is in the window of its days argument
NoneInWindow ==
    /\ summary_call.days # {}
    /\ \A i \in DOMAIN summary_call.messages : \A d \in summary_call.days :
           summary_call.messages[i].timestamp < Now - d

\* C23: with an empty list summarize returns the nothing-to-summarize
\* sentinel, and with a list none of whose messages is in the window it
\* returns the other, nothing-in-window sentinel; in both cases it calls
\* neither the router nor a provider
NothingToSummarizeNoCalls ==
    summary_pc # "idle" =>
        /\ summary_call.messages = <<>> =>
               /\ summary_pc = "done"
               /\ summary_result = ReturnValue("nothing_to_summarize", {})
               /\ router_calls = 0 /\ provider_calls = 0
        /\ (summary_call.messages # <<>> /\ NoneInWindow) =>
               /\ summary_pc = "done"
               /\ summary_result = ReturnValue("nothing_in_window", summary_call.days)
               /\ router_calls = 0 /\ provider_calls = 0

\* a call whose messages are all older than the window has returned
NothingInWindowWitness ==
    /\ summary_pc = "done"
    /\ Len(summary_call.messages) >= 2
    /\ NoneInWindow
    /\ summary_result.value = "nothing_in_window"

\* the messages of the call that are in its window
InWindow ==
    SelectSeq(summary_call.messages,
              LAMBDA msg : \A d \in summary_call.days : msg.timestamp >= Now - d)

\* the prompt lists the messages it holds by ascending timestamp, equal
\* timestamps in the order of the caller's list
PromptChronological ==
    \A i, j \in DOMAIN summary_prompt :
        i < j => \/ summary_prompt[i].timestamp < summary_prompt[j].timestamp
                 \/ /\ summary_prompt[i].timestamp = summary_prompt[j].timestamp
                    /\ summary_prompt[i].id < summary_prompt[j].id

\* C24: when more than MAX_MESSAGES messages are left by the window, the
\* prompt lists exactly MAX_MESSAGES of them, none older than a message it
\* leaves out, by ascending timestamp, equal timestamps in the order of the
\* caller's list
PromptHoldsMostRecent ==
    (router_calls = 1 /\ Len(InWindow) > MAX_MESSAGES) =>
        /\ Len(summary_prompt) = MAX_MESSAGES
        /\ Range(summary_prompt) \subseteq Range(InWindow)
        /\ \A m \in Range(InWindow) \ Range(summary_prompt) : \A q \in Range(summary_prompt) :
               m.timestamp <= q.timestamp
        /\ PromptChronological

\* the sessions created for a guild and neither ended nor deleted
OpenSessions(g) == {s \in SessionIds : voice_sessions[s] = "open" /\ session_guild[s] = g}

\* the callers that take a step
Stepping == {c \in RecCallers : rec_pc'[c] # rec_pc[c] \/ rec_call'[c] # rec_call[c]}

\* C25: over calls made in sequence each guild has at most one active
\* recording (at most one open session, the one stored under the guild);
\* start_recording on a guild that is recording fails with
\* VoiceRecorderError and changes neither the stored recording nor a
\* session; stop_recording and cancel_recording on a guild that is not
\* recording fail with VoiceRecorderError; and a step of a call for one
\* guild changes neither the recording nor the sessions of another guild
OneRecordingPerGuild ==
    /\ [](/\ \A g \in Guilds :
                 /\ Cardinality(OpenSessions(g)) <= 1
                 /\ OpenSessions(g) \subseteq {active_recordings[g].session_id}
          /\ \A c \in RecCallers :
                 /\ (rec_call[c].op = "start" /\ rec_call[c].was_recording) =>
                        rec_call[c].kind = "raised" /\ rec_call[c].error = "VoiceRecorderError"
                 /\ (rec_call[c].op \in {"stop", "cancel"} /\ ~rec_call[c].was_recording) =>
                        rec_call[c].kind = "raised" /\ rec_call[c].error = "VoiceRecorderError")
    /\ [][/\ \A c \in Stepping :
                 (rec_pc[c] = "idle" /\ rec_call'[c].op = "start"
                      /\ rec_call'[c].was_recording) =>
                     active_recordings' = active_recordings /\ voice_sessions' = voice_sessions
          /\ \A c \in Stepping : \A g \in Guilds \ {rec_call'[c].guild} :
                 /\ active_recordings'[g] = active_recordings[g]
                 /\ \A s \in SessionIds :
                        session_guild[s] = g =>
                            /\ voice_sessions'[s] = voice_sessions[s]
                            /\ session_guild'[s] = g]_vars

\* both guilds are recording, each with its own open session, and a second
\* start_recording on guild 1 has failed with VoiceRecorderError
SecondStartRefusedWitness ==
    /\ \A g \in Guilds : Cardinality(OpenSessions(g)) = 1
    /\ \E c \in RecCallers :
           /\ rec_call[c].op = "start" /\ rec_call[c].guild = 1
           /\ rec_call[c].was_recording
           /\ rec_call[c].error = "VoiceRecorderError"

\* the start_recording call of the caller has stored its recording
Started(c) ==
    /\ rec_call[c].op = "start"
    /\ rec_pc[c] = "start_notify" \/ rec_call[c].kind = "returned"

\* C30: of two start_recording calls for one guild that both passed the
\* already-recording check before either stored its recording, at most one
\* succeeds, so that one session only is created and no stored recording is
\* overwritten
ConcurrentStartsExclusive ==
    /\ ~overwritten
    /\ \A c \in RecCallers : \A d \in overlapped[c] : ~(Started(c) /\ Started(d))
    /\ \A g \in Guilds : Cardinality(OpenSessions(g)) <= 1

\* C26: two successful sends to one destination are at least a cooldown
\* apart, whichever invocations issue them and however these interleave: a
\* send that returns normally returns no sooner than a cooldown after the
\* last send to its destination that did
ConcurrentSendsSpaced ==
    [][\A t \in Tasks :
           (Len(sent_ok'[t]) > Len(sent_ok[t]) /\ Dest(t) \in DOMAIN true_last_ok) =>
               true_last_ok[Dest(t)] >= Cooldown]_vars

\* the deliveries that own a slot: in the body of the async with, or given
\* the slot by a release and not resumed yet
HoldingSlot == InGate \cup granted

\* no delivery is in flight
NoDeliveryInFlight == \A t \in Tasks : pc[t] \in {"idle", "done", "raised", "cancelled"}

\* C27: the slots are conserved: the free slots and the deliveries that own
\* one add up to MAX_CONCURRENT_REQUESTS in every state, whichever way the
\* deliveries end (send returned, fetch failed, channel of another kind, send
\* raised, cancellation in the cooldown sleep or elsewhere), and every slot is
\* free when no delivery is in flight
SlotsConserved ==
    /\ semaphore_value + Cardinality(HoldingSlot) = MAX_CONCURRENT_REQUESTS
    /\ NoDeliveryInFlight => semaphore_value = MAX_CONCURRENT_REQUESTS /\ waiters = <<>>

\* every invocation has ended, one of them by a cancellation in its cooldown
\* sleep, one with a failed delivery and one with a successful one
AllExitsWitness ==
    /\ NoDeliveryInFlight
    /\ \E t \in Tasks : pc[t] = "cancelled" /\ sleep_left[t] > 0
    /\ \E t \in Tasks : failed[t] # <<>>
    /\ \E t \in Tasks : sent_ok[t] # <<>>
    /\ semaphore_value = MAX_CONCURRENT_REQUESTS

\* C28: whatever start() and stop() calls are made and however they
\* interleave, at most one background task is alive at any time
SingleBackgroundTask == Cardinality({k \in BgTasks : Alive(k)}) <= 1

\* the last check_and_notify call that ended raised
LastSweepRaised == sweep_log # <<>> /\ sweep_log[Len(sweep_log)].raised

\* C29: a check_and_notify call that raises does not end the background
\* task: the step in which it raises leaves every alive task alive (the
\* sweeping one asleep for the interval), no task ever ends with an error, and a sleeping task goes on to its next sweep unless it is
\* cancelled (sweeps are counted up to MaxSweeps)
FailedSweepGoesOn ==
    /\ [](\A k \in BgTasks : bg_pc[k] # "failed")
    /\ [][(Len(sweep_log') > Len(sweep_log) /\ LastSweepRaised') =>
              (\A k \in BgTasks : Alive(k) => bg_pc'[k] = "sleep" \/ bg_pc'[k] = bg_pc[k])]_vars
    /\ \A k \in BgTasks :
           (bg_pc[k] = "sleep" /\ LastSweepRaised /\ sweeps < MaxSweeps) ~>
               (bg_pc[k] \in {"sweep", "cancelled"} \/ sweeps = MaxSweeps)

\* a sweep of a background task raised, and the same task has started the
\* next sweep
NextSweepWitness ==
    /\ sweep_log # <<>>
    /\ sweep_log[1].raised
    /\ sweeps = 1
    /\ \E k \in BgTasks : bg_pc[k] = "sweep" /\ \A j \in BgTasks \ {k} : bg_pc[j] = "none"

====
